---- MODULE Spec2Model ----
(***************************************************************************)
(* The incremental indexing pipeline of the 0G contract indexer:           *)
(* IndexerService (indexer/src/services/indexer.js), the chain reader it   *)
(* calls (BlockchainService), the storage layer (StorageService) and the   *)
(* relational store (DatabaseManager).                                     *)
(*                                                                         *)
(* A tick is one call of performIndexing.  Ticks are started by start()    *)
(* (the initial tick) and by the cron timer; each runs as an async         *)
(* function, so several may be suspended at an await at the same time.     *)
(* An action is one run-to-suspension segment of a tick.  processBlock is  *)
(* taken as one segment: every write is an upsert of data that depends on  *)
(* the block alone and rows are never deleted, so interleaving two ticks   *)
(* inside a block yields no table contents that block-level interleaving   *)
(* does not.                                                               *)
(***************************************************************************)
EXTENDS Integers, Sequences, FiniteSets, TLC

\* ---------------------------------------------------------------- bounds
MaxHead == 3
MaxTicks == 2
MaxFaults == 1
MaxBatchSize == 2
MaxConfirmations == 1
MaxRestarts == 1
MaxRetries == 4
MaxRangeLen == 25
MaxOverlapLen == 6
MaxBlockTxs == 3
MaxStarts == 2
MaxLoops == 2

\* ------------------------------------------------------ program constants
\* Math.min(10, blockNumbers.length)
SubBatchWidth == 10

\* ethAddressRegex: /^0x[a-fA-F0-9]{40}$/
AddressDigits == 40

VARIABLES
    head,               \* chain: height of the newest block
    providerUp,         \* chain reader: provider not destroyed
    batchSize,          \* this.batchSize
    blockConfirmations, \* this.blockConfirmations
    startBlockEnv,      \* process.env.START_BLOCK
    isRunning,          \* this.isRunning
    cronJob,            \* this.cronJob is armed
    currentBlock,       \* this.currentBlock
    lastProcessedBlock, \* this.indexingStats.lastProcessedBlock
    tick,               \* the calls of performIndexing, in start order
    nTicks,             \* how many have been started
    blocks,             \* table blocks
    transactions,       \* table transactions
    events,             \* table events
    functionCalls,      \* table function_calls, in rowid order
    contracts,          \* table contracts
    indexerState,       \* table indexer_state
    committed,          \* history: the range whose cursor advance ran last, if any
    faults,             \* how many failures the environment has injected
    restarts,           \* how many times the process has been started anew
    retryCall,          \* one call of retry(fn, maxRetries): its progress
    env,                \* process.env: OG_RPC_URL and CONTRACT_ADDRESSES
    phase,              \* how far the process has got with starting up
    indexingStats,      \* this.indexingStats: the three progress counters
    received,           \* a transaction, a log or a block handed to the processor
    monitor             \* the RealTimeEventMonitor of the examples

vars == << head, providerUp, batchSize, blockConfirmations, startBlockEnv,
           isRunning, cronJob, currentBlock, lastProcessedBlock, tick, nTicks,
           blocks, transactions, events, functionCalls, contracts,
           indexerState, committed, faults, restarts, retryCall, env, phase,
           indexingStats, received, monitor >>

Min(a, b) == IF a <= b THEN a ELSE b

Max(a, b) == IF a >= b THEN a ELSE b

NULL == "null"

\* ------------------------------------------------------------ chain data
\* Addresses are spelled as the operator and the chain reader spell them, in
\* mixed case: "0xAA" and "0xaa" are one address, "0xBB" and "0xbb" another.
\* String.prototype.toLowerCase on the model's addresses
toLowerCase(a) ==
    CASE a = "0xAA" -> "0xaa"
      [] a = "0xBB" -> "0xbb"
      [] OTHER -> a

\* process.env.CONTRACT_ADDRESSES.split(',').map(trim)
contractAddresses == {"0xAA"}

\* provider.getCode(address) !== '0x'
HasCode(a) == toLowerCase(a) = "0xaa"

\* The transactions of block n, as provider.getBlock(n, true) returns them.
\* Input data is a hex string, held as its "0x" prefix followed by groups of
\* eight hex digits (four bytes), so that slice(0, 10) is the first two groups.
\* Odd blocks: a call of the tracked contract with input, a transaction to
\* another address, and a plain transfer to the tracked contract.  Even
\* blocks: a plain transfer to the tracked contract
\* (spelled in lower case) and a contract creation (no `to`).
ChainTxs(n) ==
    IF n % 2 = 1
    THEN << [hash |-> <<n, 0>>, index |-> 0, from |-> "0xBB", to |-> "0xAA",
             data |-> <<"0x", "a9059cbb", "01">>],
            [hash |-> <<n, 1>>, index |-> 1, from |-> "0xAA", to |-> "0xBB",
             data |-> <<"0x", "23b872dd", "02">>],
            [hash |-> <<n, 2>>, index |-> 2, from |-> "0xBB", to |-> "0xAA",
             data |-> <<"0x">>] >>
    ELSE << [hash |-> <<n, 0>>, index |-> 0, from |-> "0xBB", to |-> "0xaa",
             data |-> <<"0x">>],
            [hash |-> <<n, 1>>, index |-> 1, from |-> "0xBB", to |-> NULL,
             data |-> <<"0x", "60806040">>] >>

ChainBlock(n) ==
    [number |-> n, hash |-> <<"block", n>>, transactions |-> ChainTxs(n)]

\* A nullable value: <<>> is null, <<x>> is x.
None == << >>

Some(x) == << x >>

\* provider.getTransactionReceipt(hash): status 1 in odd blocks, 0 in even
ChainReceipt(h) == [status |-> h[1] % 2, gasUsed |-> "21000"]

TransferTopic == "0xddf252ad"

ApprovalTopic == "0x8c5be1e5"

OtherTopic == "0x12345678"

\* provider.getLogs({address: tracked, fromBlock: n, toBlock: n}): the logs the
\* tracked contract emitted in block n, in log index order.  In odd blocks it
\* emits one from each of the three transactions.
ChainLogs(n) ==
    IF n % 2 = 1
    THEN << [transactionHash |-> <<n, 0>>, blockNumber |-> n, logIndex |-> 0,
             address |-> "0xAA", topics |-> <<TransferTopic>>],
            [transactionHash |-> <<n, 1>>, blockNumber |-> n, logIndex |-> 1,
             address |-> "0xAA", topics |-> <<OtherTopic>>],
            [transactionHash |-> <<n, 2>>, blockNumber |-> n, logIndex |-> 2,
             address |-> "0xAA", topics |-> <<ApprovalTopic>>] >>
    ELSE << >>

Range(s) == {s[j] : j \in DOMAIN s}

\* ---------------------------------------------------------------- storage
\* StorageService.storeBlock: INSERT OR REPLACE INTO blocks; number is the
\* primary key and hash is UNIQUE, so rows conflicting on either are replaced.
storeBlock(tbl, block) ==
    LET row == [number |-> block.number, hash |-> block.hash,
                transactionCount |-> Len(block.transactions)]
    IN {r \in tbl : r.number # row.number /\ r.hash # row.hash} \cup {row}

\* A transaction without a receipt dropped instead of stored.
storeTransactionWithReceiptOnly(tbl, tx, block, receipt) ==
    IF receipt = None THEN tbl
    ELSE {r \in tbl : r.hash # tx.hash}
         \cup {[hash |-> tx.hash,
                 blockNumber |-> block.number,
                 transactionIndex |-> tx.index,
                 fromAddress |-> toLowerCase(tx.from),
                 toAddress |-> IF tx.to = NULL THEN NULL ELSE toLowerCase(tx.to),
                 gasUsed |-> Some(receipt[1].gasUsed),
                 inputData |-> tx.data,
                 status |-> Some(receipt[1].status)]}

\* StorageService.storeTransaction: INSERT OR REPLACE INTO transactions; hash
\* is UNIQUE.  receipt is None or Some(receipt).
storeTransaction(tbl, tx, block, receipt) ==
    LET row == [hash |-> tx.hash,
                blockNumber |-> block.number,
                transactionIndex |-> tx.index,
                fromAddress |-> toLowerCase(tx.from),
                toAddress |-> IF tx.to = NULL THEN NULL ELSE toLowerCase(tx.to),
                gasUsed |-> IF receipt = None THEN None
                            ELSE Some(receipt[1].gasUsed),
                inputData |-> tx.data,
                status |-> IF receipt = None THEN None
                           ELSE Some(receipt[1].status)]
    IN {r \in tbl : r.hash # row.hash} \cup {row}

\* StorageService.storeEvent: INSERT OR REPLACE INTO events;
\* UNIQUE(transaction_hash, log_index).
storeEvent(tbl, eventData) ==
    {r \in tbl : ~(r.transactionHash = eventData.transactionHash
                   /\ r.logIndex = eventData.logIndex)} \cup {eventData}

\* ORDER BY log_index: the rows in ascending order of log_index
RECURSIVE orderByLogIndex(_)
orderByLogIndex(rows) ==
    IF rows = {} THEN << >>
    ELSE LET first == CHOOSE x \in rows : \A y \in rows : x.logIndex <= y.logIndex
         IN <<first>> \o orderByLogIndex(rows \ {first})

\* The query ordering the wrong way round: ORDER BY log_index DESC
getEventsByBlockDescending(tbl, blockNumber) ==
    LET rows == orderByLogIndex({r \in tbl : r.blockNumber = blockNumber})
    IN [j \in 1..Len(rows) |-> rows[Len(rows) + 1 - j]]

\* StorageService.getEventsByBlock:
\* SELECT * FROM events WHERE block_number = ? ORDER BY log_index
getEventsByBlock(tbl, blockNumber) ==
    orderByLogIndex({r \in tbl : r.blockNumber = blockNumber})

\* StorageService.storeFunctionCall: INSERT OR REPLACE INTO function_calls.
\* The table has no key but its autoincrement id, so nothing ever conflicts
\* and every call adds a row.
storeFunctionCall(tbl, functionCallData) == Append(tbl, functionCallData)

\* FOREIGN KEY (transaction_hash) REFERENCES transactions (hash) and
\* FOREIGN KEY (block_number) REFERENCES blocks (number), with
\* PRAGMA foreign_keys = ON: the insert fails unless the parents exist.
EventForeignKeysHold(blks, txs, eventData) ==
    /\ \E r \in txs : r.hash = eventData.transactionHash
    /\ \E r \in blks : r.number = eventData.blockNumber

\* FOREIGN KEY (transaction_hash) REFERENCES transactions (hash)
FunctionCallForeignKeysHold(txs, functionCallData) ==
    \E r \in txs : r.hash = functionCallData.transactionHash

\* DatabaseManager.setIndexerState: INSERT OR REPLACE INTO indexer_state.
\* The value column holds the decimal rendering of the number.
setIndexerState(tbl, key, value) ==
    {r \in tbl : r.key # key} \cup {[key |-> key, value |-> value]}

\* DatabaseManager.getLastIndexedBlock: SELECT MAX(number) FROM blocks, or 0
RECURSIVE SetMax(_)
SetMax(S) ==
    IF S = {} THEN 0
    ELSE LET x == CHOOSE y \in S : TRUE
         IN Max(x, SetMax(S \ {x}))

getLastIndexedBlock(blks) == SetMax({r.number : r \in blks})

\* StorageService.upsertContract as registerContracts calls it
upsertContract(tbl, address) ==
    {r \in tbl : r.address # address}
        \cup {[address |-> address, isActive |-> TRUE, lastIndexedBlock |-> 0]}

\* ------------------------------------------------------ name resolution
\* The fallback forgotten: commonEvents[eventSignature] alone.
getEventNameNoFallback(eventSignature) ==
    CASE eventSignature = "0xddf252ad" -> "Transfer"
      [] eventSignature = "0x8c5be1e5" -> "Approval"
      [] OTHER -> NULL

\* getEventName: commonEvents[eventSignature] || 'Unknown'
getEventName(eventSignature) ==
    CASE eventSignature = "0xddf252ad" -> "Transfer"
      [] eventSignature = "0x8c5be1e5" -> "Approval"
      [] OTHER -> "Unknown"

getFunctionName(functionSelector) ==
    CASE functionSelector = <<"0x", "a9059cbb">> -> "transfer"
      [] functionSelector = <<"0x", "23b872dd">> -> "transferFrom"
      [] functionSelector = <<"0x", "095ea7b3">> -> "approve"
      [] functionSelector = <<"0x", "70a08231">> -> "balanceOf"
      [] OTHER -> "Unknown"

\* transaction.data.slice(0, 10)
functionSelectorOf(data) == SubSeq(data, 1, Min(Len(data), 2))

\* ---------------------------------------------------------- configuration
\* One entry of CONTRACT_ADDRESSES as written between the commas: whether it
\* starts with 0x, how many characters follow, whether they are all hex
\* digits, and whether blanks surround it.
AddressEntries ==
    {[prefixed |-> TRUE, digits |-> AddressDigits, hex |-> TRUE, padded |-> FALSE],
     [prefixed |-> TRUE, digits |-> AddressDigits, hex |-> TRUE, padded |-> TRUE],
     [prefixed |-> TRUE, digits |-> AddressDigits - 1, hex |-> TRUE, padded |-> FALSE],
     [prefixed |-> TRUE, digits |-> AddressDigits, hex |-> FALSE, padded |-> FALSE],
     [prefixed |-> FALSE, digits |-> AddressDigits, hex |-> TRUE, padded |-> FALSE]}

\* The environments the process is launched with.  A variable is "unset",
\* the empty string, or has a value; entries is what
\* CONTRACT_ADDRESSES.split(',') yields when the variable has a value: one or
\* two entries.
Environments ==
    {[OG_RPC_URL |-> u, CONTRACT_ADDRESSES |-> c, entries |-> l] :
        u \in {"unset", "", "https://rpc"},
        c \in {"unset", ""},
        l \in {<< >>}}
    \cup
    {[OG_RPC_URL |-> u, CONTRACT_ADDRESSES |-> "list", entries |-> l] :
        u \in {"unset", "", "https://rpc"},
        l \in {<<a>> : a \in AddressEntries}
               \cup {<<a, b>> : a, b \in AddressEntries}}

\* A configuration that passes validation.
ValidEnv ==
    [OG_RPC_URL |-> "https://rpc", CONTRACT_ADDRESSES |-> "list",
     entries |-> <<[prefixed |-> TRUE, digits |-> AddressDigits, hex |-> TRUE,
                    padded |-> FALSE]>>]

\* String.prototype.trim
trim(a) == [a EXCEPT !.padded = FALSE]

\* ethAddressRegex.test(address)
ethAddressRegexTest(a) ==
    a.prefixed /\ a.digits = AddressDigits /\ a.hex /\ ~a.padded

\* !process.env[key]: unset or the empty string
envMissing(v) == v \in {"unset", ""}

\* The format loop forgotten: only the required variables are looked at.
validateConfigRequiredOnly(e) ==
    /\ ~envMissing(e.OG_RPC_URL)
    /\ ~envMissing(e.CONTRACT_ADDRESSES)

\* ContractIndexer.validateConfig: TRUE when it returns, FALSE when it throws
validateConfig(e) ==
    /\ ~envMissing(e.OG_RPC_URL)
    /\ ~envMissing(e.CONTRACT_ADDRESSES)
    /\ \A j \in DOMAIN e.entries : ethAddressRegexTest(trim(e.entries[j]))

\* ------------------------------------------------------------- scheduler
\* The confirmation depth forgotten: the head itself taken as safe.
confirmationBlockOfHead(latestBlock, confirmations) == latestBlock

\* performIndexing: const confirmationBlock = latestBlock - blockConfirmations
confirmationBlockOf(latestBlock, confirmations) == latestBlock - confirmations

\* The safe height forgotten: the batch size alone bounds the range.
toBlockOfBatchOnly(latestBlock, confirmations, current, size) ==
    current + size - 1

\* The confirmation depth left out of the bound.
toBlockOfUnconfirmed(latestBlock, confirmations, current, size) ==
    Min(latestBlock, current + size - 1)

\* The batch bound off by one: currentBlock + batchSize, without the - 1.
toBlockOfOffByOne(latestBlock, confirmations, current, size) ==
    Min(latestBlock - confirmations, current + size)

\* performIndexing: Math.min(confirmationBlock, currentBlock + batchSize - 1)
toBlockOf(latestBlock, confirmations, current, size) ==
    Min(confirmationBlockOf(latestBlock, confirmations), current + size - 1)

\* indexBlockRange: the block numbers fromBlock..toBlock, in order
blockNumbersOf(fromBlock, toBlock) ==
    [j \in 1..(toBlock - fromBlock + 1) |-> fromBlock + j - 1]

\* indexBlockRange: Math.min(10, blockNumbers.length)
smallBatchSizeOf(blockNumbers) == Min(SubBatchWidth, Len(blockNumbers))

\* The slice taking one item too many.
sliceInclusive(items, i, j) == SubSeq(items, i + 1, Min(j + 1, Len(items)))

\* processInBatches: items.slice(i, i + batchSize)
slice(items, i, j) == SubSeq(items, i + 1, Min(j, Len(items)))

\* parseInt / isNaN on the values START_BLOCK takes in the model
StartBlockValues == {"latest", "unset", "2"}

parseInt(str) == CASE str = "2" -> 2 [] str = "101" -> 101 [] OTHER -> 0

isNaN(str) == str \notin {"2", "101"}

\* determineStartingBlock
determineStartingBlock(configStartBlock, latest, blks) ==
    IF configStartBlock = "latest" THEN latest
    ELSE IF configStartBlock # "unset" /\ ~isNaN(configStartBlock)
         THEN parseInt(configStartBlock)
         ELSE getLastIndexedBlock(blks) + 1

\* registerContracts: every configured address that has code is upserted,
\* lower-cased
RECURSIVE registerContracts(_, _)
registerContracts(tbl, addrs) ==
    IF addrs = {} THEN tbl
    ELSE LET a == CHOOSE x \in addrs : TRUE
         IN registerContracts(
                IF HasCode(a) THEN upsertContract(tbl, toLowerCase(a)) ELSE tbl,
                addrs \ {a})

\* ------------------------------------------------------------- processor
\* The filter comparing the addresses as they are spelled, not lower-cased.
isRelevantCaseSensitive(tx) ==
    /\ tx.to # NULL
    /\ tx.to \in contractAddresses

\* processTransactions: the filter on the tracked contracts
isRelevant(tx) ==
    /\ tx.to # NULL
    /\ toLowerCase(tx.to) \in {toLowerCase(a) : a \in contractAddresses}

relevantTransactions(txs) == SelectSeq(txs, isRelevant)

\* processFunctionCall: the row handed to storeFunctionCall
functionCallDataOf(tx, receipt) ==
    [transactionHash |-> tx.hash,
     contractAddress |-> toLowerCase(tx.to),
     functionSignature |-> functionSelectorOf(tx.data),
     functionName |-> getFunctionName(functionSelectorOf(tx.data)),
     inputData |-> tx.data,
     success |-> (receipt.status = 1)]

\* The address of the log stored as the chain reader spells it.
eventDataOfAsSpelled(log) ==
    [transactionHash |-> log.transactionHash,
     blockNumber |-> log.blockNumber,
     logIndex |-> log.logIndex,
     contractAddress |-> log.address,
     eventSignature |-> log.topics[1],
     eventName |-> getEventName(log.topics[1])]

\* processEventLog: the row handed to storeEvent
eventDataOf(log) ==
    [transactionHash |-> log.transactionHash,
     blockNumber |-> log.blockNumber,
     logIndex |-> log.logIndex,
     contractAddress |-> toLowerCase(log.address),
     eventSignature |-> log.topics[1],
     eventName |-> getEventName(log.topics[1])]

\* The input test forgotten: a function call recorded for every receipt.
hasFunctionCallAnyInput(tx, receipt) == receipt # None

\* processTransactions: if (tx.data && tx.data !== '0x' && receipt)
hasFunctionCall(tx, receipt) == tx.data # <<"0x">> /\ receipt # None

\* The body of the loop of processTransactions for one relevant transaction.
\* db holds the tables and the failures seen; f names the injected failures.
processOneTransaction(db, tx, block, f) ==
    LET receipt == IF ~providerUp \/ tx.hash \in f.receipt THEN None
                   ELSE Some(ChainReceipt(tx.hash))
        db1 == IF receipt = None THEN [db EXCEPT !.rfail = @ \cup {tx.hash}]
               ELSE db
    IN IF tx.hash \in f.txWrite
       THEN [db1 EXCEPT !.wfail = @ \cup {"transactions"}]
       ELSE LET db2 == [db1 EXCEPT !.transactions =
                            storeTransaction(@, tx, block, receipt),
                                   !.stats.transactionsProcessed = @ + 1]
            IN IF hasFunctionCall(tx, receipt)
               THEN LET fc == functionCallDataOf(tx, receipt[1])
                    IN IF tx.hash \in f.fcWrite
                          \/ ~FunctionCallForeignKeysHold(db2.transactions, fc)
                       THEN [db2 EXCEPT !.wfail = @ \cup {"function_calls"}]
                       ELSE [db2 EXCEPT !.functionCalls =
                                 storeFunctionCall(@, fc)]
               ELSE db2

RECURSIVE processTransactionsFrom(_, _, _, _, _)
processTransactionsFrom(db, txs, j, block, f) ==
    IF j > Len(txs) THEN db
    ELSE processTransactionsFrom(processOneTransaction(db, txs[j], block, f),
                                 txs, j + 1, block, f)

\* Receipts asked for every transaction of the block, the filter applied
\* afterwards.
txHashesOfAll(txs) == [j \in DOMAIN txs |-> txs[j].hash]

\* processTransactions: txHashes, the hashes of the transactions that passed
\* the filter
txHashesOf(txs) ==
    [j \in DOMAIN relevantTransactions(txs) |->
        relevantTransactions(txs)[j].hash]

\* processTransactions: nothing is requested when no transaction passed the
\* filter; otherwise one getTransactionReceipt per hash of txHashes, then the
\* loop over the relevant transactions
processTransactions(db, block, f) ==
    IF Len(relevantTransactions(block.transactions)) = 0 THEN db
    ELSE processTransactionsFrom(
             [db EXCEPT !.receiptRequests = @ \o txHashesOf(block.transactions)],
             relevantTransactions(block.transactions), 1, block, f)

\* processEventLog for one log: a failed insert is caught and logged
processEventLog(db, log, f) ==
    LET ev == eventDataOf(log)
    IN IF log.logIndex \in f.evWrite
          \/ ~EventForeignKeysHold(db.blocks, db.transactions, ev)
       THEN [db EXCEPT !.wfail = @ \cup {"events"}]
       ELSE [db EXCEPT !.events = storeEvent(@, ev)]

RECURSIVE processEventLogsFrom(_, _, _, _)
processEventLogsFrom(db, logs, j, f) ==
    IF j > Len(logs) THEN db
    ELSE processEventLogsFrom(
             [processEventLog(db, logs[j], f) EXCEPT
                  !.stats.eventsProcessed = @ + 1],
             logs, j + 1, f)

\* processContractEvents: one getBatchLogs for the block; a failed query is
\* caught and logged
processContractEvents(db, blockNumber, f) ==
    LET db1 == [db EXCEPT !.logQueries =
                    Append(@, <<blockNumber, blockNumber>>)]
    IN IF ~providerUp \/ f.logs
       THEN [db1 EXCEPT !.ffail = @ \cup {blockNumber}]
       ELSE processEventLogsFrom(db1, ChainLogs(blockNumber), 1, f)

\* processBlock after storeBlock succeeded
processBlock(db, block, f) ==
    LET db1 == [db EXCEPT !.blocks = storeBlock(@, block),
                           !.stats.blocksProcessed = @ + 1]
        db2 == IF Len(block.transactions) > 0
               THEN processTransactions(db1, block, f) ELSE db1
    IN processContractEvents(db2, block.number, f)

\* ---------------------------------------------------- injected failures
\* What the environment makes fail while one block is processed: the write
\* of the block row, receipt fetches (after their retries), writes of
\* transaction and function-call rows, the log query (after its retries),
\* writes of event rows.  Only failures that change the outcome are listed.
BlockFaults(block, txs) ==
    LET rel == {tx.hash : tx \in Range(relevantTransactions(block.transactions))}
        withInput == {tx.hash : tx \in {x \in Range(block.transactions) :
                                         x.data # <<"0x">>}}
        logs == Range(ChainLogs(block.number))
    IN {[blockWrite |-> TRUE, receipt |-> {}, txWrite |-> {}, fcWrite |-> {},
         logs |-> FALSE, evWrite |-> {}]}
       \cup
       UNION {UNION {
           {[blockWrite |-> FALSE, receipt |-> r, txWrite |-> w, fcWrite |-> c,
             logs |-> l, evWrite |-> e] :
                c \in SUBSET ((rel \cap withInput) \ (r \cup w)),
                l \in IF providerUp THEN BOOLEAN ELSE {FALSE},
                e \in SUBSET {g.logIndex : g \in {x \in logs :
                        x.transactionHash \in
                            {y.hash : y \in txs} \cup (rel \ w)}}}
           : r \in IF providerUp THEN SUBSET (rel \ w) ELSE {{}}}
           : w \in SUBSET rel}

FaultCount(f) ==
    (IF f.blockWrite THEN 1 ELSE 0) + Cardinality(f.receipt)
    + Cardinality(f.txWrite) + Cardinality(f.fcWrite)
    + (IF f.logs THEN 1 ELSE 0)
    + (IF f.logs THEN 0 ELSE Cardinality(f.evWrite))

\* ------------------------------------------------------------------ ticks
Ticks == 1..MaxTicks

NoTick ==
    [pc |-> "idle", latestBlock |-> 0, hasRange |-> FALSE, cursor |-> 0,
     from |-> 0, to |-> 0, i |-> 0, k |-> 0, settled |-> {}, visited |-> {},
     ffail |-> {}, wfail |-> {}, rfail |-> {}, logQueries |-> << >>,
     receiptRequests |-> << >>, batches |-> << >>, advanced |-> FALSE,
     failed |-> FALSE]

\* NoTick's fields beyond the locals of performIndexing are observations:
\*   cursor    currentBlock - 1 when the range was computed
\*   visited   the blocks whose loop iteration in processBlocksBatch is over
\*   ffail     the blocks whose fetch or log query failed after its retries
\*   wfail     the tables a write of this tick failed on
\*   rfail     the transactions whose receipt fetch failed after its retries
\*   logQueries the block ranges of the getBatchLogs calls, in call order
\*   receiptRequests the hashes getTransactionReceipt was called with, in
\*             call order
\*   batches   the sub-batches handed to processBlocksBatch, in call order
\*   advanced  the tick ran this.currentBlock = toBlock + 1
\*   failed    the tick reached performIndexing's catch

\* A call of performIndexing that has returned: its locals are gone.
DoneTick == [NoTick EXCEPT !.pc = "done"]

\* The sub-batch tick t is working on: processInBatches' batch
batchOf(tk) ==
    LET blockNumbers == blockNumbersOf(tk.from, tk.to)
    IN slice(blockNumbers, tk.i, tk.i + smallBatchSizeOf(blockNumbers))

\* this.indexingStats as the constructor sets it
NoStats ==
    [blocksProcessed |-> 0, transactionsProcessed |-> 0, eventsProcessed |-> 0]

\* Nothing handed to the processor.
NoneReceived ==
    [log |-> None, transaction |-> None, block |-> None, done |-> {}]

\* A place for a poll loop of the monitor with no loop in it.
\*   pc        "timer" (setTimeout pending), "head" (awaiting getBlockNumber),
\*             "logs" (awaiting getLogs), "process" (awaiting processLog)
\*   provider  the provider the awaited call was made on
\*   outcome   how the last call of checkForNewEvents ended (an observation)
NoLoop ==
    [pc |-> "none", provider |-> 0, latestBlock |-> 0, fromBlock |-> 0,
     toBlock |-> 0, outcome |-> "none"]

\* RealTimeEventMonitor as its constructor leaves it: provider null (0),
\* isMonitoring false, lastProcessedBlock 0.  Its other fields:
\*   destroyed  the providers destroy() was called on
\*   startCall  the call of start() in progress and what it awaits
\*   loops      the poll loops startPolling has begun
\*   startHead  the head the last start() read (an observation)
\*   covered    for each block, the successful log queries whose range holds
\*              it (an observation)
NoMonitor ==
    [provider |-> 0, destroyed |-> {}, isMonitoring |-> FALSE,
     lastProcessedBlock |-> 0, startCall |-> "idle",
     loops |-> [l \in 1..MaxLoops |-> NoLoop],
     startHead |-> 0, covered |-> [b \in 0..(MaxHead + 1) |-> 0]]

\* No call of retry is being followed.
NoRetry ==
    [pc |-> "idle", maxRetries |-> 0, outcomes |-> << >>, attempt |-> 0,
     calls |-> 0, slept |-> << >>, result |-> None, lastError |-> None]

Init ==
    /\ head = 0
    /\ providerUp = TRUE
    /\ batchSize \in 1..MaxBatchSize
    /\ blockConfirmations \in 0..MaxConfirmations
    /\ startBlockEnv \in StartBlockValues
    /\ isRunning = FALSE
    /\ cronJob = FALSE
    /\ currentBlock = 0
    /\ lastProcessedBlock = 0
    /\ tick = [t \in Ticks |-> NoTick]
    /\ nTicks = 0
    /\ blocks = {}
    /\ transactions = {}
    /\ events = {}
    /\ functionCalls = << >>
    /\ contracts = {}
    /\ indexerState = {}
    /\ committed = << >>
    /\ faults = 0
    /\ restarts = 0
    /\ retryCall = NoRetry
    /\ env = ValidEnv
    /\ phase = "validated"
    /\ indexingStats = NoStats
    /\ received = NoneReceived
    /\ monitor = NoMonitor

\* The chain grows by one block.
HeadAdvance ==
    /\ head < MaxHead
    /\ head' = head + 1
    /\ UNCHANGED << providerUp, batchSize, blockConfirmations, startBlockEnv,
                    isRunning, cronJob, currentBlock, lastProcessedBlock, tick,
                    nTicks, blocks, transactions, events, functionCalls,
                    contracts, indexerState, committed, faults,
                    restarts, retryCall, env, phase,
                    indexingStats, received, monitor >>

\* IndexerService.start up to the first await of the initial performIndexing.
\* lost is the set of configured addresses whose code lookup failed after its
\* retries: isContract answers false for them.
Start ==
    /\ phase = "validated"
    /\ ~isRunning
    /\ nTicks = 0
    /\ \E lost \in SUBSET contractAddresses :
         /\ Cardinality(lost) <= MaxFaults - faults
         /\ faults' = faults + Cardinality(lost)
         /\ contracts' = registerContracts(contracts, contractAddresses \ lost)
    /\ currentBlock' = determineStartingBlock(startBlockEnv, head, blocks)
    /\ lastProcessedBlock' = currentBlock' - 1
    /\ isRunning' = TRUE
    /\ cronJob' = TRUE
    /\ nTicks' = 1
    /\ tick' = [tick EXCEPT ![1] = [NoTick EXCEPT !.pc = "head"]]
    /\ UNCHANGED << head, providerUp, batchSize, blockConfirmations,
                    startBlockEnv, blocks, transactions, events, functionCalls,
                    indexerState, committed,
                    restarts, retryCall, env, phase,
                    indexingStats, received, monitor >>

\* The timer never cancelled and the flag never tested.
cronCallbackRunsAlways(job, running) == TRUE

\* The timer is armed and its callback passes if (this.isRunning)
cronCallbackRuns(job, running) == job /\ running

\* The cron callback: if (this.isRunning) await this.performIndexing().  The
\* timer does not wait for the previous callback.
CronFire ==
    /\ cronCallbackRuns(cronJob, isRunning)
    /\ nTicks < MaxTicks
    /\ nTicks' = nTicks + 1
    /\ tick' = [tick EXCEPT ![nTicks + 1] = [NoTick EXCEPT !.pc = "head"]]
    /\ UNCHANGED << head, providerUp, batchSize, blockConfirmations,
                    startBlockEnv, isRunning, cronJob, currentBlock,
                    lastProcessedBlock, blocks, transactions, events,
                    functionCalls, contracts, indexerState, committed, faults,
                    restarts, retryCall, env, phase,
                    indexingStats, received, monitor >>

\* IndexerService.stop: the flag, the timer, blockchainService.cleanup()
Stop ==
    /\ isRunning
    /\ isRunning' = FALSE
    /\ cronJob' = FALSE
    /\ providerUp' = FALSE
    /\ UNCHANGED << head, batchSize, blockConfirmations, startBlockEnv,
                    currentBlock, lastProcessedBlock, tick, nTicks, blocks,
                    transactions, events, functionCalls, contracts,
                    indexerState, committed, faults,
                    restarts, retryCall, env, phase,
                    indexingStats, received, monitor >>

\* The catch rethrowing: the error leaves performIndexing.
performIndexingRethrows(tk) == [tk EXCEPT !.pc = "thrown", !.failed = TRUE]

\* performIndexing's catch: the error is logged, then await sleep(5000)
performIndexingCatch(tk) == [tk EXCEPT !.pc = "sleep", !.failed = TRUE]

\* The process is ended by SIGINT or SIGTERM (stop(), then process.exit) and
\* started again with the same environment: a new IndexerService over the
\* same database file.
Restart ==
    /\ ~isRunning
    /\ nTicks > 0
    /\ restarts < MaxRestarts
    /\ restarts' = restarts + 1
    /\ providerUp' = TRUE
    /\ currentBlock' = 0
    /\ lastProcessedBlock' = 0
    /\ tick' = [t \in Ticks |-> NoTick]
    /\ nTicks' = 0
    /\ committed' = << >>
    /\ indexingStats' = NoStats
    /\ UNCHANGED << head, batchSize, blockConfirmations, startBlockEnv,
                    isRunning, cronJob, blocks, transactions, events, functionCalls, contracts,
                    indexerState, faults, retryCall, env, phase,
                    received, monitor >>

\* performIndexing, from the head read to the first block fetches (a range)
\* or to logProgress (no range)
Schedule(tk, latestBlock) ==
    LET toBlock == toBlockOf(latestBlock, blockConfirmations, currentBlock,
                             batchSize)
    IN IF currentBlock <= toBlock
       THEN [tk EXCEPT !.pc = "fetch", !.latestBlock = latestBlock,
                       !.hasRange = TRUE, !.cursor = currentBlock - 1,
                       !.from = currentBlock, !.to = toBlock, !.i = 0]
       ELSE [tk EXCEPT !.pc = "logProgress", !.latestBlock = latestBlock,
                       !.cursor = currentBlock - 1]

HeadRead(t) ==
    /\ tick[t].pc = "head"
    /\ \/ /\ providerUp
          /\ tick' = [tick EXCEPT ![t] = Schedule(@, head)]
          /\ UNCHANGED faults
       \/ /\ providerUp => faults < MaxFaults
          /\ faults' = IF providerUp THEN faults + 1 ELSE faults
          /\ tick' = [tick EXCEPT ![t] = performIndexingCatch(@)]
    /\ UNCHANGED << head, providerUp, batchSize, blockConfirmations,
                    startBlockEnv, isRunning, cronJob, currentBlock,
                    lastProcessedBlock, nTicks, blocks, transactions, events,
                    functionCalls, contracts, indexerState, committed,
                    restarts, retryCall, env, phase,
                    indexingStats, received, monitor >>

\* processBlocksBatch: Promise.allSettled over getBlock of the sub-batch;
\* lost is the set of blocks whose fetch failed after its retries
FetchSettled(t) ==
    /\ tick[t].pc = "fetch"
    /\ LET batch == Range(batchOf(tick[t]))
       IN \E lost \in SUBSET batch :
            /\ IF providerUp THEN Cardinality(lost) <= MaxFaults - faults
               ELSE lost = batch
            /\ faults' = IF providerUp THEN faults + Cardinality(lost)
                         ELSE faults
            /\ tick' = [tick EXCEPT ![t].pc = "process", ![t].k = 0,
                                    ![t].settled = batch \ lost,
                                    ![t].batches =
                                        Append(@, batchOf(tick[t])),
                                    ![t].ffail = @ \cup lost]
    /\ UNCHANGED << head, providerUp, batchSize, blockConfirmations,
                    startBlockEnv, isRunning, cronJob, currentBlock,
                    lastProcessedBlock, nTicks, blocks, transactions, events,
                    functionCalls, contracts, indexerState, committed,
                    restarts, retryCall, env, phase,
                    indexingStats, received, monitor >>

\* Promise.all in place of Promise.allSettled: one rejected fetch and no
\* block of the sub-batch is processed.
fulfilledAll(settled, batch, b) == settled = batch /\ b \in settled

\* processBlocksBatch: blockResult.status === 'fulfilled' && blockResult.value
fulfilled(settled, batch, b) == b \in settled

\* The rethrow forgotten: a failed storeBlock is only logged, as the failures
\* of the other writes are.
processBlockSwallows(storeBlockFailed) == FALSE

\* processBlock's catch logs and rethrows (throw error), and so do
\* processBlocksBatch and processInBatches: a failed storeBlock leaves
\* indexBlockRange as an exception
processBlockThrows(storeBlockFailed) == storeBlockFailed

\* What follows the loop body of processBlocksBatch for one block, up to the
\* next await: the next block of the sub-batch, the fetches of the next
\* sub-batch, or, the range done, performIndexing's cursor advance and its
\* setIndexerState.  tk is the tick after the block, db the tables, nf the
\* failures injected while the block was processed.
AfterBlock(t, tk, db, nf) ==
    LET blockNumbers == blockNumbersOf(tk.from, tk.to)
        size == smallBatchSizeOf(blockNumbers)
        batch == batchOf(tk)
    IN /\ blocks' = db.blocks
       /\ transactions' = db.transactions
       /\ events' = db.events
       /\ functionCalls' = db.functionCalls
       /\ indexingStats' = db.stats
       /\ IF tk.k + 1 < Len(batch)
          THEN /\ tick' = [tick EXCEPT ![t] = [tk EXCEPT !.k = @ + 1]]
               /\ faults' = faults + nf
               /\ UNCHANGED << currentBlock, lastProcessedBlock, indexerState,
                               committed >>
          ELSE IF tk.i + size < Len(blockNumbers)
          THEN /\ tick' = [tick EXCEPT ![t] =
                              [tk EXCEPT !.i = @ + size, !.pc = "fetch"]]
               /\ faults' = faults + nf
               /\ UNCHANGED << currentBlock, lastProcessedBlock, indexerState,
                               committed >>
          ELSE /\ currentBlock' = tk.to + 1
               /\ lastProcessedBlock' = tk.to
               /\ committed' = << << tk.from, tk.to >> >>
               /\ \/ /\ indexerState' =
                           setIndexerState(indexerState, "last_indexed_block",
                                           tk.to)
                     /\ faults' = faults + nf
                     /\ tick' = [tick EXCEPT ![t] =
                                    [tk EXCEPT !.pc = "logProgress",
                                               !.advanced = TRUE]]
                  \/ /\ faults + nf < MaxFaults
                     /\ faults' = faults + nf + 1
                     /\ UNCHANGED indexerState
                     /\ tick' = [tick EXCEPT ![t] = performIndexingCatch(
                                    [tk EXCEPT !.advanced = TRUE,
                                               !.wfail = @ \cup {"indexer_state"}])]

\* processBlocksBatch: one iteration of the loop over the settled fetches
ProcessBlock(t) ==
    /\ tick[t].pc = "process"
    /\ LET tk == tick[t]
           b == batchOf(tk)[tk.k + 1]
           db0 == [blocks |-> blocks, transactions |-> transactions,
                   events |-> events, functionCalls |-> functionCalls,
                   ffail |-> tk.ffail, wfail |-> tk.wfail, rfail |-> tk.rfail,
                   logQueries |-> tk.logQueries,
                   receiptRequests |-> tk.receiptRequests,
                   stats |-> indexingStats]
       IN \/ /\ ~fulfilled(tk.settled, Range(batchOf(tk)), b)
             /\ AfterBlock(t, [tk EXCEPT !.visited = @ \cup {b}], db0, 0)
          \/ /\ fulfilled(tk.settled, Range(batchOf(tk)), b)
             /\ \E f \in BlockFaults(ChainBlock(b), transactions) :
                  /\ FaultCount(f) <= MaxFaults - faults
                  /\ IF f.blockWrite
                     THEN IF processBlockThrows(TRUE)
                          THEN /\ tick' = [tick EXCEPT ![t] =
                                    performIndexingCatch(
                                        [tk EXCEPT !.wfail = @ \cup {"blocks"}])]
                               /\ faults' = faults + 1
                               /\ UNCHANGED << currentBlock, lastProcessedBlock,
                                               blocks, transactions, events,
                                               functionCalls, indexerState,
                                               committed, indexingStats >>
                          ELSE AfterBlock(t,
                                   [tk EXCEPT !.visited = @ \cup {b},
                                              !.wfail = @ \cup {"blocks"}],
                                   db0, 1)
                     ELSE LET db == processBlock(db0, ChainBlock(b), f)
                          IN AfterBlock(t,
                                 [tk EXCEPT !.visited = @ \cup {b},
                                            !.ffail = db.ffail,
                                            !.wfail = db.wfail,
                                            !.rfail = db.rfail,
                                            !.logQueries = db.logQueries,
                                            !.receiptRequests =
                                                db.receiptRequests],
                                 db, FaultCount(f))
    /\ UNCHANGED << head, providerUp, batchSize, blockConfirmations,
                    startBlockEnv, isRunning, cronJob, nTicks, contracts,
                    restarts, retryCall, env, phase,
                    received, monitor >>

\* logProgress: its getLatestBlockNumber; a failure lands in performIndexing's
\* catch
LogProgress(t) ==
    /\ tick[t].pc = "logProgress"
    /\ \/ /\ providerUp
          /\ tick' = [tick EXCEPT ![t] = DoneTick]
          /\ UNCHANGED faults
       \/ /\ providerUp => faults < MaxFaults
          /\ faults' = IF providerUp THEN faults + 1 ELSE faults
          /\ tick' = [tick EXCEPT ![t] = performIndexingCatch(@)]
    /\ UNCHANGED << head, providerUp, batchSize, blockConfirmations,
                    startBlockEnv, isRunning, cronJob, currentBlock,
                    lastProcessedBlock, nTicks, blocks, transactions, events,
                    functionCalls, contracts, indexerState, committed,
                    restarts, retryCall, env, phase,
                    indexingStats, received, monitor >>

\* performIndexing's catch: await sleep(5000), then the tick returns
SleepDone(t) ==
    /\ tick[t].pc = "sleep"
    /\ tick' = [tick EXCEPT ![t] = DoneTick]
    /\ UNCHANGED << head, providerUp, batchSize, blockConfirmations,
                    startBlockEnv, isRunning, cronJob, currentBlock,
                    lastProcessedBlock, nTicks, blocks, transactions, events,
                    functionCalls, contracts, indexerState, committed, faults,
                    restarts, retryCall, env, phase,
                    indexingStats, received, monitor >>

Next ==
    \/ HeadAdvance
    \/ Start
    \/ CronFire
    \/ Stop
    \/ \E t \in Ticks : HeadRead(t)
    \/ \E t \in Ticks : FetchSettled(t)
    \/ \E t \in Ticks : ProcessBlock(t)
    \/ \E t \in Ticks : LogProgress(t)
    \/ \E t \in Ticks : SleepDone(t)

Spec == Init /\ [][Next]_vars

\* ------------------------------------------------ ticks one after another
\* The variables of the indexer, its chain and its store.
indexerVarsButPhase ==
    << head, providerUp, batchSize, blockConfirmations, startBlockEnv,
       isRunning, cronJob, currentBlock, lastProcessedBlock, tick, nTicks,
       blocks, transactions, events, functionCalls, contracts, indexerState,
       committed, faults, restarts, env, indexingStats, received, monitor >>

indexerVars ==
    << head, providerUp, batchSize, blockConfirmations, startBlockEnv,
       isRunning, cronJob, currentBlock, lastProcessedBlock, tick, nTicks,
       blocks, transactions, events, functionCalls, contracts, indexerState,
       committed, faults, restarts, env, phase, indexingStats, received,
       monitor >>

\* The state start() leaves with START_BLOCK=101 on an empty store, the
\* initial tick at its head read; head, confirmation depth and batch size are
\* drawn around 120, 12 and 5.  No failure is injected.
ScenarioInit ==
    /\ head \in 119..121
    /\ providerUp = TRUE
    /\ batchSize \in 4..6
    /\ blockConfirmations \in 11..13
    /\ startBlockEnv = "101"
    /\ isRunning = TRUE
    /\ cronJob = TRUE
    /\ currentBlock = determineStartingBlock(startBlockEnv, head, {})
    /\ lastProcessedBlock = currentBlock - 1
    /\ tick = [t \in Ticks |-> IF t = 1 THEN [NoTick EXCEPT !.pc = "head"]
                                ELSE NoTick]
    /\ nTicks = 1
    /\ blocks = {}
    /\ transactions = {}
    /\ events = {}
    /\ functionCalls = << >>
    /\ contracts = registerContracts({}, contractAddresses)
    /\ indexerState = {}
    /\ committed = << >>
    /\ faults = MaxFaults
    /\ restarts = 0
    /\ retryCall = NoRetry
    /\ env = ValidEnv
    /\ phase = "validated"
    /\ indexingStats = NoStats
    /\ received = NoneReceived
    /\ monitor = NoMonitor

\* The cron callback firing once the previous tick has returned.
CronFireIdle ==
    /\ cronCallbackRuns(cronJob, isRunning)
    /\ tick[1].pc = "done"
    /\ nTicks < MaxTicks + 1
    /\ nTicks' = nTicks + 1
    /\ tick' = [tick EXCEPT ![1] = [NoTick EXCEPT !.pc = "head"]]
    /\ UNCHANGED << head, providerUp, batchSize, blockConfirmations,
                    startBlockEnv, isRunning, cronJob, currentBlock,
                    lastProcessedBlock, blocks, transactions, events,
                    functionCalls, contracts, indexerState, committed, faults,
                    restarts, retryCall, env, phase,
                    indexingStats, received, monitor >>

ScenarioNext ==
    \/ CronFireIdle
    \/ HeadRead(1)
    \/ FetchSettled(1)
    \/ ProcessBlock(1)
    \/ LogProgress(1)

ScenarioSpec == ScenarioInit /\ [][ScenarioNext]_vars

\* ------------------------------------------------------ ticks without end
\* The chain stands at its head from the start of the run.
LiveInit ==
    /\ head \in 0..MaxHead
    /\ providerUp = TRUE
    /\ batchSize \in 1..MaxBatchSize
    /\ blockConfirmations \in 0..MaxConfirmations
    /\ startBlockEnv \in StartBlockValues
    /\ isRunning = FALSE
    /\ cronJob = FALSE
    /\ currentBlock = 0
    /\ lastProcessedBlock = 0
    /\ tick = [t \in Ticks |-> NoTick]
    /\ nTicks = 0
    /\ blocks = {}
    /\ transactions = {}
    /\ events = {}
    /\ functionCalls = << >>
    /\ contracts = {}
    /\ indexerState = {}
    /\ committed = << >>
    /\ faults = 0
    /\ restarts = 0
    /\ retryCall = NoRetry
    /\ env = ValidEnv
    /\ phase = "validated"
    /\ indexingStats = NoStats
    /\ received = NoneReceived
    /\ monitor = NoMonitor

\* The cron callback, fired again and again, each firing after the call of
\* performIndexing before it has returned.
CronFireLive ==
    /\ cronCallbackRuns(cronJob, isRunning)
    /\ tick[1].pc = "done"
    /\ tick' = [tick EXCEPT ![1] = [NoTick EXCEPT !.pc = "head"]]
    /\ nTicks' = IF nTicks < MaxTicks THEN nTicks + 1 ELSE nTicks
    /\ UNCHANGED << head, providerUp, batchSize, blockConfirmations,
                    startBlockEnv, isRunning, cronJob, currentBlock,
                    lastProcessedBlock, blocks, transactions, events,
                    functionCalls, contracts, indexerState, committed, faults,
                    restarts, retryCall, env, phase,
                    indexingStats, received, monitor >>

\* The next step of the call of performIndexing in place t.
TickStep(t) ==
    \/ HeadRead(t)
    \/ FetchSettled(t)
    \/ ProcessBlock(t)
    \/ LogProgress(t)
    \/ SleepDone(t)

LiveNext ==
    \/ Start
    \/ CronFireLive
    \/ TickStep(1)

\* WF_tick(ProcessBlock(1)) written out: ProcessBlock(1) is enabled exactly
\* when the call stands at "process", every step of it changes tick, and under
\* LiveNext no other action takes a step there.
ProcessBlockFairness ==
    \/ []<>(tick[1].pc # "process")
    \/ []<><<tick[1].pc = "process">>_tick

\* The event loop runs every callback that is ready: start() runs, the timer
\* keeps firing, and every awaited call of a tick settles.
LiveSpec ==
    /\ LiveInit
    /\ [][LiveNext]_vars
    /\ WF_vars(Start)
    /\ WF_vars(CronFireLive)
    /\ WF_vars(HeadRead(1))
    /\ WF_vars(FetchSettled(1))
    /\ ProcessBlockFairness
    /\ WF_vars(LogProgress(1))
    /\ WF_vars(SleepDone(1))

\* ------------------------------------------------- the real-time monitor
Loops == 1..MaxLoops

\* Everything but the monitor, the head and the failures made so far.
besideMonitor ==
    << providerUp, batchSize, blockConfirmations, startBlockEnv, isRunning,
       cronJob, currentBlock, lastProcessedBlock, tick, nTicks, blocks,
       transactions, events, functionCalls, contracts, indexerState,
       committed, restarts, retryCall, env, phase, indexingStats, received >>

MonitorInit ==
    /\ head = 0
    /\ providerUp = TRUE
    /\ batchSize = 1
    /\ blockConfirmations = 0
    /\ startBlockEnv = "unset"
    /\ isRunning = FALSE
    /\ cronJob = FALSE
    /\ currentBlock = 0
    /\ lastProcessedBlock = 0
    /\ tick = [t \in Ticks |-> NoTick]
    /\ nTicks = 0
    /\ blocks = {}
    /\ transactions = {}
    /\ events = {}
    /\ functionCalls = << >>
    /\ contracts = {}
    /\ indexerState = {}
    /\ committed = << >>
    /\ faults = 0
    /\ restarts = 0
    /\ retryCall = NoRetry
    /\ env = ValidEnv
    /\ phase = "validated"
    /\ indexingStats = NoStats
    /\ received = NoneReceived
    /\ monitor = NoMonitor

\* A call made on a destroyed provider rejects.
rejects(m, provider) == provider \in m.destroyed

\* poll, from its top to its first await: if (!this.isMonitoring) return;
\* then checkForNewEvents calls this.provider.getBlockNumber()
pollRuns(m, loop) ==
    IF ~m.isMonitoring THEN NoLoop
    ELSE [loop EXCEPT !.pc = "head", !.provider = m.provider]

\* poll, after checkForNewEvents returned or threw:
\* if (this.isMonitoring) setTimeout(poll, 5000)
pollEnds(m, loop, outcome) ==
    IF m.isMonitoring THEN [loop EXCEPT !.pc = "timer", !.outcome = outcome]
    ELSE [NoLoop EXCEPT !.outcome = outcome]

\* start(): this.provider = new ethers.JsonRpcProvider(...), then
\* await this.provider.getNetwork()
MonitorStart ==
    /\ monitor.startCall = "idle"
    /\ monitor.provider < MaxStarts
    /\ monitor' = [monitor EXCEPT !.provider = @ + 1, !.startCall = "network"]
    /\ UNCHANGED << head, faults, besideMonitor >>

\* start(): getNetwork settles; then await this.provider.getBlockNumber().
\* A rejection is rethrown.
MonitorStartNetwork ==
    /\ monitor.startCall = "network"
    /\ \/ /\ ~rejects(monitor, monitor.provider)
          /\ monitor' = [monitor EXCEPT !.startCall = "head"]
          /\ UNCHANGED faults
       \/ /\ rejects(monitor, monitor.provider) \/ faults < MaxFaults
          /\ faults' = IF rejects(monitor, monitor.provider)
                       THEN faults ELSE faults + 1
          /\ monitor' = [monitor EXCEPT !.startCall = "idle"]
    /\ UNCHANGED << head, besideMonitor >>

\* start(): getBlockNumber settles; lastProcessedBlock = latestBlock,
\* isMonitoring = true, startPolling(), whose poll() runs to its first await.
MonitorStartHead ==
    /\ monitor.startCall = "head"
    /\ \/ /\ ~rejects(monitor, monitor.provider)
          /\ \E l \in Loops :
               /\ monitor.loops[l].pc = "none"
               /\ \A u \in 1..(l - 1) : monitor.loops[u].pc # "none"
               /\ LET m == [monitor EXCEPT !.lastProcessedBlock = head,
                                           !.isMonitoring = TRUE,
                                           !.startHead = head,
                                           !.startCall = "idle"]
                  IN monitor' = [m EXCEPT !.loops[l] = pollRuns(m, NoLoop)]
          /\ UNCHANGED faults
       \/ /\ rejects(monitor, monitor.provider) \/ faults < MaxFaults
          /\ faults' = IF rejects(monitor, monitor.provider)
                       THEN faults ELSE faults + 1
          /\ monitor' = [monitor EXCEPT !.startCall = "idle"]
    /\ UNCHANGED << head, besideMonitor >>

\* stop(): isMonitoring = false and provider.destroy() when there is a
\* provider.  No timer is cleared.
MonitorStop ==
    /\ monitor.provider > 0
    /\ monitor.isMonitoring \/ monitor.provider \notin monitor.destroyed
    /\ monitor' = [monitor EXCEPT !.isMonitoring = FALSE,
                                  !.destroyed = @ \cup {monitor.provider}]
    /\ UNCHANGED << head, faults, besideMonitor >>

\* The timer of a loop fires: poll runs to its first await.
PollTimer(l) ==
    /\ monitor.loops[l].pc = "timer"
    /\ monitor' = [monitor EXCEPT !.loops[l] = pollRuns(monitor, @)]
    /\ UNCHANGED << head, faults, besideMonitor >>

\* checkForNewEvents: getBlockNumber settles.  No new block: return.
\* Otherwise the range and await this.provider.getLogs(...).  A rejection is
\* caught by poll.
PollHead(l) ==
    /\ monitor.loops[l].pc = "head"
    /\ LET loop == monitor.loops[l]
       IN \/ /\ ~rejects(monitor, loop.provider)
             /\ UNCHANGED faults
             /\ monitor' =
                  IF head <= monitor.lastProcessedBlock
                  THEN [monitor EXCEPT !.loops[l] = pollEnds(monitor, loop, "idle")]
                  ELSE [monitor EXCEPT !.loops[l] =
                           [loop EXCEPT !.pc = "logs",
                                        !.provider = monitor.provider,
                                        !.latestBlock = head,
                                        !.fromBlock = monitor.lastProcessedBlock + 1,
                                        !.toBlock = head]]
          \/ /\ rejects(monitor, loop.provider) \/ faults < MaxFaults
             /\ faults' = IF rejects(monitor, loop.provider)
                          THEN faults ELSE faults + 1
             /\ monitor' = [monitor EXCEPT !.loops[l] = pollEnds(monitor, loop, "failed")]
    /\ UNCHANGED << head, besideMonitor >>

\* checkForNewEvents: getLogs settles.  With logs, await processLog for each;
\* without, this.lastProcessedBlock = latestBlock and return.
PollLogs(l) ==
    /\ monitor.loops[l].pc = "logs"
    /\ LET loop == monitor.loops[l]
           m == [monitor EXCEPT !.covered =
                    [b \in DOMAIN @ |->
                        IF b \in loop.fromBlock..loop.toBlock
                        THEN @[b] + 1 ELSE @[b]]]
       IN \/ /\ ~rejects(monitor, loop.provider)
             /\ UNCHANGED faults
             /\ monitor' =
                  IF \E b \in loop.fromBlock..loop.toBlock : Len(ChainLogs(b)) > 0
                  THEN [m EXCEPT !.loops[l] = [loop EXCEPT !.pc = "process"]]
                  ELSE LET m2 == [m EXCEPT !.lastProcessedBlock = loop.latestBlock]
                       IN [m2 EXCEPT !.loops[l] = pollEnds(m2, loop, "ok")]
          \/ /\ rejects(monitor, loop.provider) \/ faults < MaxFaults
             /\ faults' = IF rejects(monitor, loop.provider)
                          THEN faults ELSE faults + 1
             /\ monitor' = [monitor EXCEPT !.loops[l] = pollEnds(monitor, loop, "failed")]
    /\ UNCHANGED << head, besideMonitor >>

\* checkForNewEvents: every processLog has returned (it catches its own
\* errors); this.lastProcessedBlock = latestBlock.
PollProcessed(l) ==
    /\ monitor.loops[l].pc = "process"
    /\ LET loop == monitor.loops[l]
           m == [monitor EXCEPT !.lastProcessedBlock = loop.latestBlock]
       IN monitor' = [m EXCEPT !.loops[l] = pollEnds(m, loop, "ok")]
    /\ UNCHANGED << head, faults, besideMonitor >>

MonitorNext ==
    \/ HeadAdvance
    \/ MonitorStart
    \/ MonitorStartNetwork
    \/ MonitorStartHead
    \/ MonitorStop
    \/ \E l \in Loops : PollTimer(l)
    \/ \E l \in Loops : PollHead(l)
    \/ \E l \in Loops : PollLogs(l)
    \/ \E l \in Loops : PollProcessed(l)

MonitorSpec == MonitorInit /\ [][MonitorNext]_vars

\* Nothing is made to fail.
NoFaults ==
    [blockWrite |-> FALSE, receipt |-> {}, txWrite |-> {}, fcWrite |-> {},
     logs |-> FALSE, evWrite |-> {}]

\* The tables and counters as the processor finds them.
Tables ==
    [blocks |-> blocks, transactions |-> transactions, events |-> events,
     functionCalls |-> functionCalls, ffail |-> {}, wfail |-> {},
     rfail |-> {}, logQueries |-> << >>, receiptRequests |-> << >>,
     stats |-> indexingStats]

\* ---------------------------------------------------- runs with a restart
\* What a call of processBlock has written when the process dies inside it:
\* nothing yet, the block row, or the block row and the rows of its
\* transactions.
processBlockCutShort(db, block) ==
    LET db1 == [db EXCEPT !.blocks = storeBlock(@, block),
                           !.stats.blocksProcessed = @ + 1]
        db2 == IF Len(block.transactions) > 0
               THEN processTransactions(db1, block, NoFaults) ELSE db1
    IN {db, db1, db2}

\* The process dies while it runs (killed, or process.exit(1) from the
\* uncaughtException or unhandledRejection handler) and is started again with
\* the same environment over the same database file.  The calls of
\* performIndexing in progress are gone: they are kept as "killed" with the
\* range they had.  A call inside processBlock leaves what it had written.
Crash ==
    /\ isRunning
    /\ nTicks > 0
    /\ restarts < MaxRestarts
    /\ restarts' = restarts + 1
    /\ providerUp' = TRUE
    /\ isRunning' = FALSE
    /\ cronJob' = FALSE
    /\ currentBlock' = 0
    /\ lastProcessedBlock' = 0
    /\ nTicks' = 0
    /\ committed' = << >>
    /\ indexingStats' = NoStats
    /\ tick' = [t \in Ticks |->
                  IF tick[t].pc \in {"idle", "done"} THEN NoTick
                  ELSE [tick[t] EXCEPT !.pc = "killed"]]
    /\ \/ UNCHANGED << blocks, transactions, events, functionCalls >>
       \/ \E t \in Ticks :
            /\ tick[t].pc = "process"
            /\ fulfilled(tick[t].settled, Range(batchOf(tick[t])),
                         batchOf(tick[t])[tick[t].k + 1])
            /\ \E db \in processBlockCutShort(
                             Tables, ChainBlock(batchOf(tick[t])[tick[t].k + 1])) :
                 /\ blocks' = db.blocks
                 /\ transactions' = db.transactions
                 /\ functionCalls' = db.functionCalls
                 /\ UNCHANGED events
    /\ UNCHANGED << head, batchSize, blockConfirmations, startBlockEnv,
                    contracts, indexerState, faults, retryCall, env, phase,
                    received, monitor >>

\* The process started, stopped or killed and started again, its ticks one
\* after another.
NextRestart ==
    \/ HeadAdvance
    \/ Start
    \/ CronFireIdle
    \/ Stop
    \/ Restart
    \/ Crash
    \/ HeadRead(1)
    \/ FetchSettled(1)
    \/ ProcessBlock(1)
    \/ LogProgress(1)
    \/ SleepDone(1)

RestartSpec == Init /\ [][NextRestart]_vars

\* ------------------------------------------------------------ long ranges
\* The state start() leaves with START_BLOCK=2 on an empty store, the initial
\* tick at its head read, the chain long enough for a range of batchSize
\* blocks.  No failure is injected.
BatchInit ==
    /\ head = MaxRangeLen + 2
    /\ providerUp = TRUE
    /\ batchSize \in 1..MaxRangeLen
    /\ blockConfirmations = 0
    /\ startBlockEnv = "2"
    /\ isRunning = TRUE
    /\ cronJob = TRUE
    /\ currentBlock = determineStartingBlock(startBlockEnv, head, {})
    /\ lastProcessedBlock = currentBlock - 1
    /\ tick = [t \in Ticks |-> IF t = 1 THEN [NoTick EXCEPT !.pc = "head"]
                                ELSE NoTick]
    /\ nTicks = 1
    /\ blocks = {}
    /\ transactions = {}
    /\ events = {}
    /\ functionCalls = << >>
    /\ contracts = registerContracts({}, contractAddresses)
    /\ indexerState = {}
    /\ committed = << >>
    /\ faults = MaxFaults
    /\ restarts = 0
    /\ retryCall = NoRetry
    /\ env = ValidEnv
    /\ phase = "validated"
    /\ indexingStats = NoStats
    /\ received = NoneReceived
    /\ monitor = NoMonitor

\* Ticks one after another.
BatchNext ==
    \/ CronFireIdle
    \/ HeadRead(1)
    \/ FetchSettled(1)
    \/ ProcessBlock(1)
    \/ LogProgress(1)

BatchSpec == BatchInit /\ [][BatchNext]_vars

\* The same start with ranges of up to MaxOverlapLen blocks, the timer firing
\* whenever it likes.
OverlapInit ==
    /\ BatchInit
    /\ batchSize <= MaxOverlapLen

OverlapNext ==
    \/ CronFire
    \/ \E t \in Ticks : HeadRead(t)
    \/ \E t \in Ticks : FetchSettled(t)
    \/ \E t \in Ticks : ProcessBlock(t)
    \/ \E t \in Ticks : LogProgress(t)

OverlapSpec == OverlapInit /\ [][OverlapNext]_vars

\* ---------------------------------------------------------------- startup
\* The process is launched with some environment.
StartupInit ==
    /\ head = 0
    /\ providerUp = TRUE
    /\ batchSize \in 1..MaxBatchSize
    /\ blockConfirmations \in 0..MaxConfirmations
    /\ startBlockEnv \in StartBlockValues
    /\ isRunning = FALSE
    /\ cronJob = FALSE
    /\ currentBlock = 0
    /\ lastProcessedBlock = 0
    /\ tick = [t \in Ticks |-> NoTick]
    /\ nTicks = 0
    /\ blocks = {}
    /\ transactions = {}
    /\ events = {}
    /\ functionCalls = << >>
    /\ contracts = {}
    /\ indexerState = {}
    /\ committed = << >>
    /\ faults = 0
    /\ restarts = 0
    /\ retryCall = NoRetry
    /\ env \in Environments
    /\ phase = "load"
    /\ indexingStats = NoStats
    /\ received = NoneReceived
    /\ monitor = NoMonitor

\* new ContractIndexer(): the constructor of IndexerService splits
\* process.env.CONTRACT_ADDRESSES, which throws when the variable is unset;
\* the exception ends the process.
Construct ==
    /\ phase = "load"
    /\ phase' = IF env.CONTRACT_ADDRESSES = "unset" THEN "exited"
                ELSE "constructed"
    /\ UNCHANGED << indexerVarsButPhase, retryCall >>

\* ContractIndexer.start up to indexerService.start(): validateConfig, whose
\* exception is caught and answered with process.exit(1), then
\* dbManager.initialize()
ValidateConfig ==
    /\ phase = "constructed"
    /\ phase' = IF validateConfig(env) THEN "validated" ELSE "exited"
    /\ UNCHANGED << indexerVarsButPhase, retryCall >>

StartupNext ==
    \/ Construct
    \/ ValidateConfig
    \/ HeadAdvance
    \/ Start
    \/ CronFireIdle
    \/ HeadRead(1)
    \/ FetchSettled(1)
    \/ ProcessBlock(1)
    \/ LogProgress(1)
    \/ SleepDone(1)

StartupSpec == StartupInit /\ [][StartupNext]_vars

\* ------------------------------------------------------- classification
\* The processor is handed one transaction to the tracked contract and one
\* log of that transaction, of block 1, whose row is stored.  The selector of
\* the transaction and the signature of the log are mapped ones or others;
\* nothing fails.
FunctionSelectors ==
    {"a9059cbb", "23b872dd", "095ea7b3", "70a08231", "deadbeef", "12"}

EventSignatures == {TransferTopic, ApprovalTopic, OtherTopic}

ReceivedTransactions ==
    {[hash |-> <<1, 0>>, index |-> 0, from |-> "0xBB", to |-> "0xAA",
      data |-> <<"0x", sel>>] : sel \in FunctionSelectors}

ReceivedLogs ==
    {[transactionHash |-> <<1, 0>>, blockNumber |-> 1, logIndex |-> li,
      address |-> "0xAA", topics |-> <<sig>>] :
        li \in 0..2, sig \in EventSignatures}

ClassifyInit ==
    /\ head = 1
    /\ providerUp = TRUE
    /\ batchSize = 1
    /\ blockConfirmations = 0
    /\ startBlockEnv = "unset"
    /\ isRunning = TRUE
    /\ cronJob = TRUE
    /\ currentBlock = 1
    /\ lastProcessedBlock = 0
    /\ tick = [t \in Ticks |-> NoTick]
    /\ nTicks = 1
    /\ blocks = storeBlock({}, ChainBlock(1))
    /\ transactions = {}
    /\ events = {}
    /\ functionCalls = << >>
    /\ contracts = registerContracts({}, contractAddresses)
    /\ indexerState = {}
    /\ committed = << >>
    /\ faults = MaxFaults
    /\ restarts = 0
    /\ retryCall = NoRetry
    /\ env = ValidEnv
    /\ phase = "validated"
    /\ indexingStats = [NoStats EXCEPT !.blocksProcessed = 1]
    /\ monitor = NoMonitor
    /\ \E tx \in ReceivedTransactions : \E log \in ReceivedLogs :
         received = [NoneReceived EXCEPT !.log = Some(log),
                                         !.transaction = Some(tx)]

\* processTransactions: the loop body for the transaction handed in
ProcessTransaction ==
    /\ received.transaction # None
    /\ "transaction" \notin received.done
    /\ LET db == processOneTransaction(Tables, received.transaction[1],
                                       ChainBlock(1), NoFaults)
       IN /\ transactions' = db.transactions
          /\ functionCalls' = db.functionCalls
          /\ indexingStats' = db.stats
    /\ received' = [received EXCEPT !.done = @ \cup {"transaction"}]
    /\ UNCHANGED << head, providerUp, batchSize, blockConfirmations,
                    startBlockEnv, isRunning, cronJob, currentBlock,
                    lastProcessedBlock, tick, nTicks, blocks, events,
                    contracts, indexerState, committed, faults, restarts,
                    retryCall, env, phase, monitor >>

\* processContractEvents: the loop body for the log handed in, after the
\* transactions of the block
ProcessEventLog ==
    /\ received.log # None
    /\ "transaction" \in received.done
    /\ "log" \notin received.done
    /\ LET db == processEventLog(Tables, received.log[1], NoFaults)
       IN /\ events' = db.events
          /\ indexingStats' =
                [db.stats EXCEPT !.eventsProcessed = @ + 1]
    /\ received' = [received EXCEPT !.done = @ \cup {"log"}]
    /\ UNCHANGED << head, providerUp, batchSize, blockConfirmations,
                    startBlockEnv, isRunning, cronJob, currentBlock,
                    lastProcessedBlock, tick, nTicks, blocks, transactions,
                    functionCalls, contracts, indexerState, committed, faults,
                    restarts, retryCall, env, phase, monitor >>

ClassifyNext ==
    \/ ProcessTransaction
    \/ ProcessEventLog

ClassifySpec == ClassifyInit /\ [][ClassifyNext]_vars

\* ------------------------------------------------------ receipt requests
\* The processor is handed block 2 with up to MaxBlockTxs transactions, each
\* to the tracked contract (in either spelling), to another address or to no
\* address.  Nothing fails.
Recipients == {"0xAA", "0xaa", "0xBB", NULL}

ReceivedBlocks ==
    {[number |-> 2, hash |-> <<"block", 2>>,
      transactions |-> [j \in 1..n |->
          [hash |-> <<2, j - 1>>, index |-> j - 1, from |-> "0xBB",
           to |-> tos[j], data |-> <<"0x">>]]] :
        n \in 0..MaxBlockTxs, tos \in [1..MaxBlockTxs -> Recipients]}

ReceiptInit ==
    /\ head = 2
    /\ providerUp = TRUE
    /\ batchSize = 1
    /\ blockConfirmations = 0
    /\ startBlockEnv = "2"
    /\ isRunning = TRUE
    /\ cronJob = TRUE
    /\ currentBlock = 2
    /\ lastProcessedBlock = 1
    /\ nTicks = 1
    /\ blocks = {}
    /\ transactions = {}
    /\ events = {}
    /\ functionCalls = << >>
    /\ contracts = registerContracts({}, contractAddresses)
    /\ indexerState = {}
    /\ committed = << >>
    /\ faults = MaxFaults
    /\ restarts = 0
    /\ retryCall = NoRetry
    /\ env = ValidEnv
    /\ phase = "validated"
    /\ indexingStats = NoStats
    /\ monitor = NoMonitor
    /\ tick = [t \in Ticks |->
                 IF t = 1
                 THEN [NoTick EXCEPT !.pc = "process", !.hasRange = TRUE,
                                     !.latestBlock = 2, !.cursor = 1,
                                     !.from = 2, !.to = 2, !.settled = {2},
                                     !.batches = << <<2>> >>]
                 ELSE NoTick]
    /\ \E block \in ReceivedBlocks :
         received = [NoneReceived EXCEPT !.block = Some(block)]

\* processBlock on the block handed in
ProcessReceivedBlock ==
    /\ received.block # None
    /\ "block" \notin received.done
    /\ LET db == processBlock(Tables, received.block[1], NoFaults)
       IN /\ blocks' = db.blocks
          /\ transactions' = db.transactions
          /\ events' = db.events
          /\ functionCalls' = db.functionCalls
          /\ indexingStats' = db.stats
          /\ tick' = [tick EXCEPT ![1].visited = {2},
                                  ![1].k = 1,
                                  ![1].rfail = db.rfail,
                                  ![1].logQueries = db.logQueries,
                                  ![1].receiptRequests = db.receiptRequests]
    /\ received' = [received EXCEPT !.done = @ \cup {"block"}]
    /\ UNCHANGED << head, providerUp, batchSize, blockConfirmations,
                    startBlockEnv, isRunning, cronJob, currentBlock,
                    lastProcessedBlock, nTicks, contracts, indexerState,
                    committed, faults, restarts, retryCall, env, phase,
                    monitor >>

ReceiptNext == ProcessReceivedBlock

ReceiptSpec == ReceiptInit /\ [][ReceiptNext]_vars

\* ------------------------------------------------------------------ retry
\* A linear backoff in place of the exponential one.
backoffDelayLinear(attempt) == attempt * 1000

\* retry: const delay = Math.pow(2, attempt - 1) * 1000, in milliseconds
backoffDelay(attempt) == (2 ^ (attempt - 1)) * 1000

\* retry(fn, maxRetries) is called.  outcomes[n] tells whether the n-th call
\* of fn fulfils; its value, or its error, is named by n.
RetryInit ==
    /\ head = 0
    /\ providerUp = TRUE
    /\ batchSize = 1
    /\ blockConfirmations = 0
    /\ startBlockEnv = "unset"
    /\ isRunning = FALSE
    /\ cronJob = FALSE
    /\ currentBlock = 0
    /\ lastProcessedBlock = 0
    /\ tick = [t \in Ticks |-> NoTick]
    /\ nTicks = 0
    /\ blocks = {}
    /\ transactions = {}
    /\ events = {}
    /\ functionCalls = << >>
    /\ contracts = {}
    /\ indexerState = {}
    /\ committed = << >>
    /\ faults = 0
    /\ restarts = 0
    /\ env = ValidEnv
    /\ phase = "validated"
    /\ indexingStats = NoStats
    /\ received = NoneReceived
    /\ monitor = NoMonitor
    /\ \E m \in 1..MaxRetries : \E o \in [1..(MaxRetries + 1) -> BOOLEAN] :
         retryCall = [NoRetry EXCEPT !.pc = "call", !.maxRetries = m,
                                     !.outcomes = o, !.attempt = 1]

\* retry: one pass of the loop body, return await fn() and its catch, up to
\* the return, the throw or the await of sleep(delay)
RetryAttempt ==
    /\ retryCall.pc = "call"
    /\ LET n == retryCall.calls + 1
       IN retryCall' =
            IF retryCall.outcomes[n]
            THEN [retryCall EXCEPT !.pc = "returned", !.calls = n,
                                   !.result = Some(n)]
            ELSE IF retryCall.attempt = retryCall.maxRetries
            THEN [retryCall EXCEPT !.pc = "thrown", !.calls = n,
                                   !.lastError = Some(n)]
            ELSE [retryCall EXCEPT !.pc = "sleep", !.calls = n,
                                   !.lastError = Some(n),
                                   !.slept = Append(@,
                                       backoffDelay(retryCall.attempt))]
    /\ UNCHANGED indexerVars

\* retry: sleep(delay) is over, attempt++
RetryWake ==
    /\ retryCall.pc = "sleep"
    /\ retryCall' = [retryCall EXCEPT !.pc = "call", !.attempt = @ + 1]
    /\ UNCHANGED indexerVars

RetryNext ==
    \/ RetryAttempt
    \/ RetryWake

RetrySpec == RetryInit /\ [][RetryNext]_vars

\* ================================================================ claims

\* Ticks that have computed their range decision and have not returned.
Scheduled(t) ==
    \/ tick[t].pc \in {"fetch", "process", "logProgress"}
    \/ tick[t].pc = "sleep" /\ tick[t].hasRange

\* The value of the last_indexed_block row, when there is one.
LastIndexed(tbl) == {r.value : r \in {x \in tbl : x.key = "last_indexed_block"}}

\* C1: confirmation safety.  The range of every tick ends at or below the
\* head height the tick read minus the confirmation depth, and (the head never
\* decreasing) every block fetched or persisted is at or below the current
\* head minus the confirmation depth.
C1_ConfirmationSafety ==
    /\ \A t \in Ticks : tick[t].hasRange =>
           tick[t].to <= tick[t].latestBlock - blockConfirmations
    /\ \A t \in Ticks : \A b \in tick[t].settled \cup tick[t].visited :
           b <= head - blockConfirmations
    /\ \A r \in blocks : r.number <= head - blockConfirmations
    /\ \A r \in transactions : r.blockNumber <= head - blockConfirmations
    /\ \A r \in events : r.blockNumber <= head - blockConfirmations

\* A block exactly at the confirmation boundary of a positive depth has been
\* persisted by a tick whose range ended there.
C1_Witness ==
    /\ blockConfirmations >= 1
    /\ \E r \in blocks : r.number = head - blockConfirmations
    /\ \E t \in Ticks : /\ tick[t].advanced
                        /\ tick[t].to = tick[t].latestBlock - blockConfirmations

\* C2: monotonic cursor.  Once start() has seeded it, neither the in-memory
\* cursor nor the persisted last_indexed_block ever decreases while the process
\* runs.
C2_MonotonicCursor ==
    [][(nTicks > 0 /\ restarts' = restarts) =>
         /\ currentBlock' >= currentBlock
         /\ \A old \in LastIndexed(indexerState) :
              \A new \in LastIndexed(indexerState') : new >= old]_vars

\* C3: the cursor is never advanced past an unresolved failure.  When a tick
\* is past its cursor write, last_indexed_block is below every block of its
\* range whose fetch or log query failed for good.
C3_NoAdvancePastFailure ==
    \A t \in Ticks : tick[t].pc = "logProgress" =>
        \A b \in tick[t].ffail :
            \A v \in LastIndexed(indexerState) : v < b

\* The rows a range yields when nothing fails.
RangeAllStored(from, to) ==
    \A b \in from..to :
        /\ \E r \in blocks : r.number = b
        /\ \A tx \in Range(relevantTransactions(ChainTxs(b))) :
             /\ \E r \in transactions : r.hash = tx.hash
             /\ tx.data # <<"0x">> =>
                  \E j \in DOMAIN functionCalls :
                      functionCalls[j].transactionHash = tx.hash
        /\ \A g \in Range(ChainLogs(b)) :
             (\E tx \in Range(relevantTransactions(ChainTxs(b))) :
                  tx.hash = g.transactionHash)
             => \E r \in events : /\ r.transactionHash = g.transactionHash
                                  /\ r.logIndex = g.logIndex

RangeNoneStored(from, to) ==
    /\ \A r \in blocks : r.number \notin from..to
    /\ \A r \in transactions : r.blockNumber \notin from..to
    /\ \A r \in events : r.blockNumber \notin from..to
    /\ \A j \in DOMAIN functionCalls :
         functionCalls[j].transactionHash[1] \notin from..to

\* C4: atomic range commit.  When a tick is through with its range (it
\* advanced the cursor or landed in the catch), either every row of the range
\* is stored or none is.
C4_AtomicRangeCommit ==
    \A t \in Ticks :
        (tick[t].hasRange /\ tick[t].pc \in {"logProgress", "sleep"}) =>
            \/ RangeAllStored(tick[t].from, tick[t].to)
            \/ RangeNoneStored(tick[t].from, tick[t].to)

\* C5: the cursor advances to range.to only after indexBlockRange of that
\* range has returned without an exception, and nothing else writes it.  Every
\* step of a running process after start() that changes currentBlock or
\* indexer_state is the step
\* of one tick that completes the last block of its range: every block of the
\* range has been through processBlocksBatch's loop, no storeBlock threw, the
\* in-memory cursor becomes to + 1 and the row, if written, holds to.
C5_AdvanceOnlyAfterRange ==
    [][(nTicks > 0 /\ restarts' = restarts
        /\ (currentBlock' # currentBlock
            \/ indexerState' # indexerState)) =>
         \E t \in Ticks :
            /\ tick[t].pc = "process"
            /\ ~tick[t].advanced
            /\ tick'[t].advanced
            /\ tick'[t].visited = tick[t].from..tick[t].to
            /\ "blocks" \notin tick'[t].wfail
            /\ currentBlock' = tick[t].to + 1
            /\ indexerState' \in
                 {indexerState,
                  setIndexerState(indexerState, "last_indexed_block",
                                  tick[t].to)}]_vars

\* A tick has advanced the cursor over a range of two blocks and written the
\* row.
C5_Witness ==
    \E t \in Ticks :
        /\ tick[t].pc = "logProgress"
        /\ tick[t].advanced
        /\ tick[t].to = tick[t].from + 1
        /\ LastIndexed(indexerState) = {tick[t].to}
        /\ currentBlock = tick[t].to + 1

\* C6: persistence error handling.  A tick in which the write of a block,
\* transaction, event or function-call row failed does not advance the
\* cursor.
C6_WriteFailureStopsAdvance ==
    \A t \in Ticks :
        tick[t].wfail \cap {"blocks", "transactions", "events",
                            "function_calls"} # {}
        => ~tick[t].advanced

\* C7: idempotent commit.  No table holds two rows with the same natural key:
\* block number, transaction hash, (transaction hash, log index), and the
\* transaction hash of a function call.
C7_IdempotentCommit ==
    /\ \A r1, r2 \in blocks : r1.number = r2.number => r1 = r2
    /\ \A r1, r2 \in transactions : r1.hash = r2.hash => r1 = r2
    /\ \A r1, r2 \in events :
         (r1.transactionHash = r2.transactionHash /\ r1.logIndex = r2.logIndex)
         => r1 = r2
    /\ \A j1, j2 \in DOMAIN functionCalls :
         functionCalls[j1].transactionHash = functionCalls[j2].transactionHash
         => j1 = j2

\* C8: at most one range is in flight.  No two ticks are between the
\* computation of their range and the end of its processing at once.
C8_AtMostOneInFlight ==
    Cardinality({t \in Ticks : tick[t].pc \in {"fetch", "process"}}) <= 1

\* C9: scheduler result.  With cursor the last committed block when the tick
\* computed its range, h the head it read, c the confirmation depth and b the
\* batch size: no range if cursor >= h - c, else exactly
\* [cursor + 1, min(h - c, cursor + b)], which is non-empty and has at most b
\* blocks.
C9_SchedulerResult ==
    \A t \in Ticks : Scheduled(t) =>
        LET h == tick[t].latestBlock
            c == blockConfirmations
            b == batchSize
            cursor == tick[t].cursor
        IN IF cursor >= h - c
           THEN ~tick[t].hasRange
           ELSE /\ tick[t].hasRange
                /\ tick[t].from = cursor + 1
                /\ tick[t].to = (IF h - c <= cursor + b THEN h - c
                                 ELSE cursor + b)
                /\ tick[t].from <= tick[t].to
                /\ tick[t].to - tick[t].from + 1 <= b

\* A tick whose range is cut by the batch size, not by the safe height.
C9_Witness ==
    \E t \in Ticks :
        /\ tick[t].pc = "fetch"
        /\ batchSize >= 2
        /\ tick[t].to = tick[t].cursor + batchSize
        /\ tick[t].to < tick[t].latestBlock - blockConfirmations

\* C10: ranges are committed in increasing order without overlap or gap.
\* Whenever a tick advances the cursor after another has, its range starts
\* one past the end of the range committed before it.
C10_RangesContiguous ==
    [][(committed # << >>
        /\ \E t \in Ticks : ~tick[t].advanced /\ tick'[t].advanced) =>
         committed'[1][1] = committed[1][2] + 1]_vars

\* The hashes of the transactions of block b whose `to` is, ignoring letter
\* case, the tracked contract address.
TrackedHashes(b) ==
    {tx.hash : tx \in {x \in Range(ChainTxs(b)) : x.to \in {"0xAA", "0xaa"}}}

\* C11: filter correctness.  No transaction row is ever persisted for a
\* transaction whose `to` is missing or untracked, no transaction has two
\* rows, and once a tick has processed a fetched block without a failed write
\* of a block or transaction row, the rows of that block are exactly the J
\* transactions addressed to the tracked contract.
C11_FilterCorrectness ==
    /\ \A r \in transactions : r.hash \in TrackedHashes(r.blockNumber)
    /\ \A r1, r2 \in transactions : r1.hash = r2.hash => r1 = r2
    /\ \A t \in Ticks :
         tick[t].wfail \cap {"blocks", "transactions"} = {} =>
            \A b \in tick[t].visited \ tick[t].ffail :
                {r.hash : r \in {x \in transactions : x.blockNumber = b}}
                    = TrackedHashes(b)

\* A tick has processed an even block, whose two transactions are a transfer
\* to the tracked address spelled in lower case and a contract creation, and
\* the one row is there.
C11_Witness ==
    \E t \in Ticks : \E b \in tick[t].visited \ tick[t].ffail :
        /\ b % 2 = 0
        /\ tick[t].wfail = {}
        /\ Len(ChainTxs(b)) = 2
        /\ {r.hash : r \in {x \in transactions : x.blockNumber = b}} = {<<b, 0>>}

\* C12: partial-failure isolation.  In a sub-batch in which exactly one block
\* fetch failed for good, every step of the loop over the sub-batch goes on to
\* the next block (nothing is thrown out of the batch unless a block row
\* cannot be written) and every fetched block gets its block row in that tick.
C12_PartialFailureIsolation ==
    [][\A t \in Ticks :
         (/\ tick[t].pc = "process"
          /\ tick'[t] # tick[t]
          /\ restarts' = restarts
          /\ Cardinality(Range(batchOf(tick[t])) \ tick[t].settled) = 1
          /\ "blocks" \notin tick'[t].wfail)
         => LET b == batchOf(tick[t])[tick[t].k + 1]
            IN /\ b \in tick'[t].visited
               /\ (tick'[t].pc = "sleep" => "indexer_state" \in tick'[t].wfail)
               /\ (b \in tick[t].settled => \E r \in blocks' : r.number = b)]_vars

\* The only tick so far had a range of two blocks, the fetch of one failed
\* and the other block is stored.
C12_Witness ==
    \E t \in Ticks : \E b \in tick[t].from..tick[t].to :
        /\ nTicks = 1
        /\ tick[t].pc = "logProgress"
        /\ tick[t].to = tick[t].from + 1
        /\ tick[t].ffail = {b}
        /\ {r.number : r \in blocks} = (tick[t].from..tick[t].to) \ {b}

\* C13: startup seeding.  start() seeds the cursor with N for START_BLOCK=N,
\* with the current head for "latest", and otherwise with the value of the
\* last_indexed_block row of indexer_state plus one.
C13_StartupSeeding ==
    [][(nTicks = 0 /\ nTicks' = 1) =>
         /\ startBlockEnv = "2" => currentBlock' = 2
         /\ startBlockEnv = "latest" => currentBlock' = head
         /\ startBlockEnv = "unset" =>
              \A v \in LastIndexed(indexerState) : currentBlock' = v + 1]_vars

\* C14: a tick that failed after its range was computed has not moved the
\* cursor.
C14_FailedTickKeepsCursor ==
    \A t \in Ticks : (tick[t].failed /\ tick[t].hasRange) => ~tick[t].advanced

\* C15: stop() lets an in-flight range finish.  With no failure injected, a
\* range whose cursor advance has run is stored in full: none of its fetches
\* or writes failed.
C15_StopLetsRangeFinish ==
    \A t \in Ticks :
        (tick[t].advanced /\ faults = 0) =>
            /\ tick[t].ffail = {}
            /\ RangeAllStored(tick[t].from, tick[t].to)

\* C16: after stop() no new tick begins.  While the running flag is false
\* after a start, no call of performIndexing gets past its first line: no
\* idle tick leaves idle and the count of ticks does not grow.
C16_NoTickAfterStop ==
    [][(~isRunning /\ nTicks > 0) =>
         /\ nTicks' <= nTicks
         /\ \A t \in Ticks : tick[t].pc = "idle" => tick'[t].pc = "idle"]_vars

\* The service was stopped while the timer still had a tick to start.
C16_Witness ==
    /\ ~isRunning
    /\ ~cronJob
    /\ nTicks >= 1
    /\ nTicks < MaxTicks
    /\ \E t \in Ticks : tick[t].pc = "idle"

\* The function_calls rows keyed by transaction hash h.
CountCalls(tbl, h) ==
    Cardinality({j \in DOMAIN tbl : tbl[j].transactionHash = h})

\* C17: tracked-transaction scenario.  A step that indexes a fetched block
\* without a failed write of a block, transaction or function-call row
\* leaves, for every transaction T of the block sent to the tracked
\* contract, exactly one transactions row and adds exactly one
\* function_calls row keyed by T's hash if T's input is not 0x and its
\* receipt exists, and none otherwise.
C17_TrackedTransactionScenario ==
    [][\A t \in Ticks :
         (/\ tick[t].pc = "process"
          /\ tick'[t] # tick[t]
          /\ restarts' = restarts
          /\ tick'[t].wfail \cap {"blocks", "transactions",
                                "function_calls"} = {}
          /\ batchOf(tick[t])[tick[t].k + 1] \in tick[t].settled)
         => \A h \in TrackedHashes(batchOf(tick[t])[tick[t].k + 1]) :
              /\ Cardinality({r \in transactions' : r.hash = h}) = 1
              /\ LET r == CHOOSE x \in transactions' : x.hash = h
                 IN CountCalls(functionCalls', h) - CountCalls(functionCalls, h)
                      = IF r.inputData # <<"0x">> /\ r.status # None
                        THEN 1 ELSE 0]_vars

\* One odd block and one even block are indexed: the call with input and a
\* receipt has its one function_calls row, the plain transfer has none.
C17_Witness ==
    /\ Len(functionCalls) = 1
    /\ functionCalls[1].transactionHash[1] % 2 = 1
    /\ \E r \in transactions : /\ r.hash[1] % 2 = 0
                               /\ r.status # None
                               /\ CountCalls(functionCalls, r.hash) = 0
    /\ \E r \in transactions : /\ r.hash = functionCalls[1].transactionHash
                               /\ r.status # None

\* C18: two-tick scenario.  With head 120, 12 confirmations, batch size 5 and
\* the cursor at 100, the first tick's range is [101, 105] and its commit
\* leaves the cursor at 105; the second tick's range is [106, 108]; the third
\* tick has no range.
C18_TwoTickScenario ==
    (head = 120 /\ blockConfirmations = 12 /\ batchSize = 5) =>
        /\ (nTicks = 1 /\ Scheduled(1)) =>
              /\ tick[1].hasRange
              /\ tick[1].from = 101
              /\ tick[1].to = 105
        /\ (nTicks = 1 /\ tick[1].advanced) =>
              /\ currentBlock = 106
              /\ LastIndexed(indexerState) = {105}
        /\ (nTicks = 2 /\ Scheduled(1)) =>
              /\ tick[1].hasRange
              /\ tick[1].from = 106
              /\ tick[1].to = 108
        /\ (nTicks = 3 /\ Scheduled(1)) => ~tick[1].hasRange

\* The third tick of the scenario has found nothing to index.
C18_Witness ==
    /\ head = 120
    /\ blockConfirmations = 12
    /\ batchSize = 5
    /\ nTicks = 3
    /\ tick[1].pc = "logProgress"
    /\ ~tick[1].hasRange
    /\ currentBlock = 109
    /\ {r.number : r \in blocks} = 101..108

\* C19: retry policy.  fn is called at most maxRetries times; the call
\* returns the value of the first call of fn that fulfils, having slept after
\* each failed one; the sleep after the k-th failed attempt is 2^(k-1)
\* seconds; when all maxRetries attempts fail the last error is thrown with no
\* sleep after the last attempt.
C19_RetryPolicy ==
    retryCall.pc # "idle" =>
        /\ retryCall.calls <= retryCall.maxRetries
        /\ \A j \in 1..Len(retryCall.slept) :
             retryCall.slept[j] = (2 ^ (j - 1)) * 1000
        /\ retryCall.pc = "sleep" =>
             /\ retryCall.calls < retryCall.maxRetries
             /\ Len(retryCall.slept) = retryCall.calls
        /\ retryCall.pc = "returned" =>
             /\ retryCall.outcomes[retryCall.calls]
             /\ \A j \in 1..(retryCall.calls - 1) : ~retryCall.outcomes[j]
             /\ retryCall.result = Some(retryCall.calls)
             /\ Len(retryCall.slept) = retryCall.calls - 1
        /\ retryCall.pc = "thrown" =>
             /\ retryCall.calls = retryCall.maxRetries
             /\ \A j \in 1..retryCall.calls : ~retryCall.outcomes[j]
             /\ retryCall.lastError = Some(retryCall.maxRetries)
             /\ Len(retryCall.slept) = retryCall.maxRetries - 1

\* Three attempts have failed: two sleeps, of one and of two seconds, and the
\* third error thrown.
C19_Witness ==
    /\ retryCall.pc = "thrown"
    /\ retryCall.maxRetries = 3
    /\ retryCall.calls = 3
    /\ retryCall.slept = <<1000, 2000>>

\* C20: a failure inside a tick never stops the pipeline.  A tick that fails
\* lands in performIndexing's catch and from there returns; neither step
\* touches the running flag or the timer.
C20_FailureAbsorbed ==
    [][\A t \in Ticks :
         /\ (tick'[t].failed /\ ~tick[t].failed) =>
               /\ tick'[t].pc = "sleep"
               /\ isRunning' = isRunning
               /\ cronJob' = cronJob
         /\ (tick[t].failed /\ tick'[t] # tick[t]) =>
               /\ tick'[t] = DoneTick
               /\ isRunning' = isRunning
               /\ cronJob' = cronJob]_vars

\* The initial tick has failed and the timer can start the next one.
C20_Witness ==
    /\ tick[1].pc = "sleep"
    /\ tick[1].failed
    /\ nTicks = 1
    /\ isRunning
    /\ cronJob
    /\ ENABLED CronFire

\* C21: event ordering.  For every block, the events getEventsByBlock reads
\* back are all the stored events of the block, each once, in non-decreasing
\* log_index order, whatever ticks wrote or re-wrote them.
C21_EventOrdering ==
    \A b \in 0..MaxHead :
        LET rows == getEventsByBlock(events, b)
        IN /\ \A j \in 1..(Len(rows) - 1) :
                rows[j].logIndex <= rows[j + 1].logIndex
           /\ Range(rows) = {r \in events : r.blockNumber = b}
           /\ Len(rows) = Cardinality({r \in events : r.blockNumber = b})

\* Two ticks have been through the same odd block, the second re-writing the
\* events of the first, and the block reads back its events 0 and 2.
C21_Witness ==
    \E b \in 0..MaxHead : \E t1, t2 \in Ticks :
        /\ t1 # t2
        /\ b \in tick[t1].visited \ tick[t1].ffail
        /\ b \in tick[t2].visited \ tick[t2].ffail
        /\ Len(getEventsByBlock(events, b)) = 2
        /\ getEventsByBlock(events, b)[1].logIndex = 0
        /\ getEventsByBlock(events, b)[2].logIndex = 2

\* An entry of CONTRACT_ADDRESSES that, blanks around it aside, is not 0x
\* followed by forty hex digits.
Malformed(a) == ~a.prefixed \/ a.digits # AddressDigits \/ ~a.hex

\* The environment lacks the RPC URL or the address list, or lists a
\* malformed address.
ConfigurationError ==
    \/ env.OG_RPC_URL \in {"unset", ""}
    \/ env.CONTRACT_ADDRESSES \in {"unset", ""}
    \/ \E j \in DOMAIN env.entries : Malformed(env.entries[j])

\* C22: configuration errors are fatal at startup.  With the RPC URL or the
\* address list missing, or a malformed address in the list, the indexer
\* service is never started: no tick runs, and no block row and no cursor
\* value is written.
C22_ConfigurationErrorFatal ==
    ConfigurationError =>
        /\ phase \in {"load", "constructed", "exited"}
        /\ ~isRunning
        /\ ~cronJob
        /\ nTicks = 0
        /\ \A t \in Ticks : tick[t].pc = "idle"
        /\ blocks = {}
        /\ indexerState = {}

\* The process has exited on a list whose first address is well formed and
\* whose second is not, the RPC URL being set.
C22_Witness ==
    /\ phase = "exited"
    /\ env.OG_RPC_URL = "https://rpc"
    /\ env.CONTRACT_ADDRESSES = "list"
    /\ Len(env.entries) = 2
    /\ ~Malformed(env.entries[1])
    /\ Malformed(env.entries[2])

\* C23: sub-batch partitioning.  The sub-batches a tick hands to
\* processBlocksBatch are, in call order, the consecutive runs of
\* min(10, to - from + 1) block numbers of from..to in ascending order, the
\* last one possibly shorter, none longer than 10; when the range is done
\* every block number of the range is in exactly one of them.
C23_SubBatchPartition ==
    \A t \in Ticks : tick[t].hasRange =>
        LET length == tick[t].to - tick[t].from + 1
            width == IF length < SubBatchWidth THEN length ELSE SubBatchWidth
            batches == tick[t].batches
        IN /\ \A j \in DOMAIN batches :
                LET first == tick[t].from + (j - 1) * width
                    last == IF first + width - 1 < tick[t].to
                            THEN first + width - 1 ELSE tick[t].to
                IN /\ first <= tick[t].to
                   /\ Len(batches[j]) = last - first + 1
                   /\ Len(batches[j]) <= SubBatchWidth
                   /\ j < Len(batches) => Len(batches[j]) = width
                   /\ \A m \in DOMAIN batches[j] :
                        batches[j][m] = first + m - 1
           /\ tick[t].advanced =>
                \A b \in tick[t].from..tick[t].to :
                    Cardinality({<<j, m>> \in
                        (DOMAIN batches) \X (1..SubBatchWidth) :
                            m <= Len(batches[j]) /\ batches[j][m] = b}) = 1

\* A range of more than twenty blocks has been indexed in three sub-batches,
\* the last one shorter than the first two.
C23_Witness ==
    \E t \in Ticks :
        /\ tick[t].advanced
        /\ Len(tick[t].batches) = 3
        /\ Len(tick[t].batches[1]) = SubBatchWidth
        /\ Len(tick[t].batches[2]) = SubBatchWidth
        /\ Len(tick[t].batches[3]) \in 1..(SubBatchWidth - 1)

\* The number of block fetches the ticks of S have in flight.
RECURSIVE InFlight(_)
InFlight(S) ==
    IF S = {} THEN 0
    ELSE LET t == CHOOSE x \in S : TRUE
         IN (IF tick[t].pc = "fetch" THEN Len(batchOf(tick[t])) ELSE 0)
            + InFlight(S \ {t})

\* C24: bounded fan-out with an all-settle join.  At most 10 block fetches
\* are in flight at any moment; while a tick goes through a sub-batch every
\* fetch of the sub-batch has settled; while the fetches of a sub-batch are in
\* flight every block of the sub-batches before it has been through the loop.
C24_BoundedFanOut ==
    /\ InFlight(Ticks) <= SubBatchWidth
    /\ \A t \in Ticks : tick[t].pc = "process" =>
           Range(batchOf(tick[t])) \subseteq tick[t].settled \cup tick[t].ffail
    /\ \A t \in Ticks : tick[t].pc = "fetch" =>
           \A b \in tick[t].from..tick[t].to :
               b < batchOf(tick[t])[1] => b \in tick[t].visited

\* C25: protocol order of one tick.  While a tick still has blocks of its
\* range to fetch or to process, no block row of the range is stored.
C25_ProtocolOrder ==
    \A t \in Ticks :
        (tick[t].hasRange /\ tick[t].pc \in {"fetch", "process"}) =>
            \A r \in blocks : r.number \notin tick[t].from..tick[t].to

\* C26: single-range log query.  A tick that has indexed its range has issued
\* exactly one log query, from the first block of the range to the last.
C26_SingleRangeLogQuery ==
    \A t \in Ticks :
        tick[t].advanced =>
            tick[t].logQueries = << <<tick[t].from, tick[t].to>> >>

\* C27: backoff after a failed tick.  While a failed tick sleeps its backoff,
\* no tick begins on a range.
C27_BackoffBeforeNextTick ==
    [][(\E t \in Ticks : tick[t].pc = "sleep") =>
         \A t \in Ticks :
            ~(tick[t].pc = "head" /\ tick'[t].pc = "fetch")]_vars

\* C28: receipt failure is best-effort.  A step that indexes a fetched block
\* without a failed write of a block or transaction row leaves one row for
\* every transaction of the block sent to the tracked contract; the row of a
\* transaction whose receipt could not be fetched has gas_used and status
\* null and the step adds no function_calls row for it; the rows of the
\* other transactions carry the status of their receipts.
C28_ReceiptFailureBestEffort ==
    [][\A t \in Ticks :
         (/\ tick[t].pc = "process"
          /\ tick'[t] # tick[t]
          /\ tick'[t].wfail \cap {"blocks", "transactions"} = {}
          /\ batchOf(tick[t])[tick[t].k + 1] \in tick[t].settled)
         => \A h \in TrackedHashes(batchOf(tick[t])[tick[t].k + 1]) :
              /\ Cardinality({r \in transactions' : r.hash = h}) = 1
              /\ LET r == CHOOSE x \in transactions' : x.hash = h
                 IN IF h \in tick'[t].rfail
                    THEN /\ r.gasUsed = None
                         /\ r.status = None
                         /\ CountCalls(functionCalls', h)
                              = CountCalls(functionCalls, h)
                    ELSE /\ r.gasUsed # None
                         /\ r.status = Some(h[1] % 2)]_vars

\* In an odd block the receipt of the call with input could not be fetched:
\* its row has no gas_used and no status and there is no function_calls row
\* for it, and the plain transfer of the same block is stored with its
\* status.
C28_Witness ==
    \E t \in Ticks : \E b \in tick[t].visited :
        /\ <<b, 0>> \in tick[t].rfail
        /\ \E r \in transactions : /\ r.hash = <<b, 0>>
                                   /\ r.inputData # <<"0x">>
                                   /\ r.gasUsed = None
                                   /\ r.status = None
        /\ CountCalls(functionCalls, <<b, 0>>) = 0
        /\ \E r \in transactions : /\ r.hash = <<b, 2>>
                                   /\ r.status = Some(1)

\* C29: an idle tick changes nothing.  A tick that reads the head while
\* currentBlock - 1 >= head - blockConfirmations computes no range and goes
\* to logProgress; a tick without a range fetches no block, receipt or log,
\* and none of its steps changes a table, the in-memory cursor or
\* last_indexed_block.
C29_IdleTickChangesNothing ==
    [][\A t \in Ticks :
         /\ (/\ tick[t].pc = "head"
             /\ tick'[t].pc \notin {"head", "sleep"}
             /\ currentBlock - 1 >= head - blockConfirmations)
            => /\ tick'[t].pc = "logProgress"
               /\ ~tick'[t].hasRange
         /\ (/\ tick[t].pc \in {"head", "logProgress"}
             /\ ~tick[t].hasRange
             /\ ~tick'[t].hasRange
             /\ tick'[t] # tick[t])
            => /\ tick'[t].settled = {}
               /\ tick'[t].batches = << >>
               /\ tick'[t].rfail = {}
               /\ tick'[t].logQueries = << >>
               /\ ~tick'[t].advanced
               /\ blocks' = blocks
               /\ transactions' = transactions
               /\ events' = events
               /\ functionCalls' = functionCalls
               /\ contracts' = contracts
               /\ indexerState' = indexerState
               /\ currentBlock' = currentBlock]_vars

\* A range has been committed and a later tick, reading the head with the
\* cursor at the safe height, is at logProgress without a range.
C29_Witness ==
    \E t \in Ticks :
        /\ tick[t].pc = "logProgress"
        /\ ~tick[t].hasRange
        /\ tick[t].cursor = tick[t].latestBlock - blockConfirmations
        /\ tick[t].cursor = currentBlock - 1
        /\ blocks # {}
        /\ LastIndexed(indexerState) = {tick[t].cursor}

\* C30: an address not classified as a contract at startup is not tracked.
\* Every transaction, event and function-call row is for an address
\* registered in the contracts table.
C30_OnlyRegisteredContracts ==
    LET registered == {c.address : c \in contracts}
    IN /\ \A r \in transactions : r.toAddress \in registered
       /\ \A r \in events : r.contractAddress \in registered
       /\ \A j \in DOMAIN functionCalls :
            functionCalls[j].contractAddress \in registered

\* The name the claim gives an event signature: the mapped one or Unknown.
MappedEventName(sig) ==
    IF sig = "0xddf252ad" THEN "Transfer"
    ELSE IF sig = "0x8c5be1e5" THEN "Approval"
    ELSE "Unknown"

\* The name the claim gives a function selector, 0x aside.
MappedFunctionName(sel) ==
    IF sel = "a9059cbb" THEN "transfer"
    ELSE IF sel = "23b872dd" THEN "transferFrom"
    ELSE IF sel = "095ea7b3" THEN "approve"
    ELSE IF sel = "70a08231" THEN "balanceOf"
    ELSE "Unknown"

\* C31: classification misses never block persistence.  Whatever its
\* selector, the transaction handed to the processor leaves a function_calls
\* row carrying the selector and its mapped name, or Unknown; whatever its
\* signature, the log leaves an events row carrying the signature and its
\* mapped name, or Unknown.
C31_ClassificationNeverBlocks ==
    /\ "transaction" \in received.done =>
         LET tx == received.transaction[1]
         IN \E j \in DOMAIN functionCalls :
              /\ functionCalls[j].transactionHash = tx.hash
              /\ functionCalls[j].functionSignature = <<"0x", tx.data[2]>>
              /\ functionCalls[j].functionName = MappedFunctionName(tx.data[2])
    /\ "log" \in received.done =>
         LET log == received.log[1]
         IN \E r \in events :
              /\ r.transactionHash = log.transactionHash
              /\ r.logIndex = log.logIndex
              /\ r.eventSignature = log.topics[1]
              /\ r.eventName = MappedEventName(log.topics[1])

\* A transaction with an unmapped selector and a log with an unmapped
\* signature have both been written, named Unknown.
C31_Witness ==
    /\ received.done = {"transaction", "log"}
    /\ received.transaction[1].data[2] = "deadbeef"
    /\ received.log[1].topics[1] = OtherTopic
    /\ \E j \in DOMAIN functionCalls : functionCalls[j].functionName = "Unknown"
    /\ \E r \in events : r.eventName = "Unknown"

\* The transactions of the block handed in whose `to` is, ignoring letter
\* case, the tracked contract address.
TrackedOfReceived ==
    {tx \in Range(received.block[1].transactions) : tx.to \in {"0xAA", "0xaa"}}

\* C32: no wasted receipt fetches.  Once the block handed in has been
\* processed, the receipts requested are those of its transactions to the
\* tracked contract, one request each, in block order: none for any other
\* transaction, and none at all for a block without tracked transactions.
C32_NoWastedReceiptFetches ==
    "block" \in received.done =>
        LET requests == tick[1].receiptRequests
        IN /\ Len(requests) = Cardinality(TrackedOfReceived)
           /\ \A tx \in TrackedOfReceived :
                Cardinality({j \in DOMAIN requests : requests[j] = tx.hash}) = 1
           /\ \A j \in DOMAIN requests :
                \E tx \in TrackedOfReceived : tx.hash = requests[j]
           /\ \A j \in 1..(Len(requests) - 1) :
                requests[j][2] < requests[j + 1][2]

\* A block of three transactions, to another address, to the tracked contract
\* and to no address, has been processed with one receipt request.
C32_Witness ==
    /\ "block" \in received.done
    /\ Len(received.block[1].transactions) = 3
    /\ received.block[1].transactions[1].to = "0xBB"
    /\ received.block[1].transactions[2].to = "0xaa"
    /\ received.block[1].transactions[3].to = NULL
    /\ tick[1].receiptRequests = << <<2, 1>> >>
    /\ {r.hash : r \in transactions} = {<<2, 1>>}

\* The model's addresses written in lower case.
LowerCase(a) == a \in {"0xaa", "0xbb"}

\* C33: lower-case normalisation.  Every address in the contracts,
\* transactions, events and function_calls tables is in lower case, however
\* the configuration and the chain reader spell it.
C33_LowerCaseAddresses ==
    /\ \A c \in contracts : LowerCase(c.address)
    /\ \A r \in transactions :
         /\ LowerCase(r.fromAddress)
         /\ r.toAddress # NULL => LowerCase(r.toAddress)
    /\ \A r \in events : LowerCase(r.contractAddress)
    /\ \A j \in DOMAIN functionCalls : LowerCase(functionCalls[j].contractAddress)

\* The contract configured as 0xAA is registered, and a transaction the
\* chain reader reports from 0xBB to 0xAA is stored with its function call
\* and its event, emitted by 0xAA: all as 0xaa and 0xbb.
C33_Witness ==
    /\ "0xAA" \in contractAddresses
    /\ \E c \in contracts : c.address = "0xaa"
    /\ \E r \in transactions :
         /\ ChainTxs(r.blockNumber)[1].hash = r.hash
         /\ ChainTxs(r.blockNumber)[1].to = "0xAA"
         /\ ChainTxs(r.blockNumber)[1].from = "0xBB"
         /\ r.toAddress = "0xaa"
         /\ r.fromAddress = "0xbb"
         /\ \E j \in DOMAIN functionCalls :
              /\ functionCalls[j].transactionHash = r.hash
              /\ functionCalls[j].contractAddress = "0xaa"
         /\ \E e \in events :
              /\ e.transactionHash = r.hash
              /\ ChainLogs(r.blockNumber)[1].address = "0xAA"
              /\ e.contractAddress = "0xaa"

\* C34: progress counters count persisted work.  With every block of every
\* range processed once and no row ever written twice, each counter equals
\* the number of rows of its table.
C34_CountersCountPersistedWork ==
    /\ indexingStats.blocksProcessed = Cardinality(blocks)
    /\ indexingStats.transactionsProcessed = Cardinality(transactions)
    /\ indexingStats.eventsProcessed = Cardinality(events)

\* C35: crash-restart loses nothing.  In resume mode, with no fetch or write
\* ever failing, the first range after the process died and was started again
\* starts no later than the first block of the interrupted range whose
\* transactions and events were not all stored.
C35_CrashRestartLosesNothing ==
    [][(nTicks = 0 /\ nTicks' = 1 /\ startBlockEnv = "unset" /\ faults = 0) =>
         \A t \in Ticks :
             (tick[t].pc = "killed" /\ tick[t].hasRange) =>
                 \A b \in tick[t].from..tick[t].to :
                     ~RangeAllStored(b, b) => currentBlock' <= b]_vars

\* C36: every tracked log becomes an event row.  With no fetch or write made
\* to fail, a tick that advanced the cursor past its range has an events row
\* for every log a tracked contract emitted in a block of the range, the logs
\* of transactions sent to other addresses included.
C36_EveryTrackedLogStored ==
    \A t \in Ticks :
        (faults = 0 /\ tick[t].advanced /\ tick[t].ffail = {}) =>
            \A b \in tick[t].from..tick[t].to :
                \A g \in Range(ChainLogs(b)) :
                    g.address \in contractAddresses =>
                        \E r \in events :
                            /\ r.transactionHash = g.transactionHash
                            /\ r.logIndex = g.logIndex

\* C37: catch-up liveness.  The head stays at H, ticks keep firing and from
\* some point on nothing fails.  When the start block is at most
\* H - confirmations + 1, last_indexed_block eventually equals
\* H - confirmations and from then on no tick has a range.
C37_CatchUpLiveness ==
    (determineStartingBlock(startBlockEnv, head, blocks)
         <= head - blockConfirmations + 1)
    => <>[](/\ LastIndexed(indexerState) = {head - blockConfirmations}
            /\ \A t \in Ticks : ~tick[t].hasRange)

\* The calls of checkForNewEvents in progress.
Polling == {l \in Loops : monitor.loops[l].pc \in {"head", "logs", "process"}}

\* C38: real-time monitor coverage.  Across any sequence of polls, start()
\* and stop(): every block above the head seen at start() and at most
\* lastProcessedBlock was covered by exactly one successful log query; two
\* polls never run at the same time; and a poll whose head read or log query
\* fails leaves lastProcessedBlock unchanged.
C38_MonitorCoverage ==
    /\ [](/\ \A b \in DOMAIN monitor.covered :
               (monitor.startHead < b /\ b <= monitor.lastProcessedBlock)
               => monitor.covered[b] = 1
          /\ Cardinality(Polling) <= 1)
    /\ [][\A l \in Loops :
             (/\ monitor.loops[l].pc \in {"head", "logs"}
              /\ monitor'.loops[l].pc \in {"timer", "none"}
              /\ monitor'.loops[l].outcome = "failed")
             => monitor'.lastProcessedBlock = monitor.lastProcessedBlock]_vars

====
